---- MODULE Spec2Model ----
(***************************************************************************)
(* Tute por parejas: the rule engine (utils/rules, constants/cards,        *)
(* utils/deck), the relay server (party/server, class TuteServer), the     *)
(* peer-mesh host (hooks/usePeerGame) and the local simulation             *)
(* (hooks/useAIGame).                                                      *)
(*                                                                         *)
(* One behaviour runs one variant, chosen by the initial state:            *)
(*   Spec       the relay server                                           *)
(*   SpecRules  the pure functions of the rule engine, applied to inputs   *)
(*              drawn from bounded sets                                    *)
(*   SpecCards  the deck, the deal and the declaration checks, applied to  *)
(*              inputs drawn from bounded sets                             *)
(*   SpecOnline the relay server or the peer mesh                          *)
(*   SpecScore  the relay server or the local simulation                   *)
(*   SpecBrowser the peer mesh or the local simulation                     *)
(***************************************************************************)
EXTENDS Integers, Sequences, FiniteSets, TLC

VARIABLES
    variant,     \* which program runs: "relay", "rules", "cards", "ai", "mesh",
                 \* "local"
    \* ---- relay server: TuteServer.state (RoomState) and what it sent
    players,     \* state.players: sequence of PlayerConnection
    hostId,      \* state.hostId ("" when none)
    gameState,   \* state.gameState (Null before START_GAME)
    idCount,     \* number of player ids generated so far
    connections, \* room.getConnections(): the ids of the open connections
    clients,     \* per client: the credentials it stored from ROOM_CREATED or
                 \* ROOM_JOINED, the sockets it has opened, whether it got a seat
    inbox,       \* the message handled by the last step: [type, from, ...]
    outbox,      \* messages sent by the last handler, in order: [to, msg]
    \* ---- rule engine: one call of a pure function
    rulesIn,     \* the function called and its arguments
    rulesOut,    \* the function applied and its result (Null before the call)
    \* ---- peer mesh: the hook's state in the host and in every peer
    peerGame,    \* per participant: gameStateRef.current (Null before any)
    peerHand,    \* per participant: myHand
    hostLink,    \* per peer: its entry in the host's connectionsMapRef
    peerLink,    \* per peer: its data connection to the host
    toPeer,      \* per peer: the messages sent by the host and not yet handled
    toHost,      \* per peer: the messages sent to the host and not yet handled
    trickTimeout,\* trickTimeoutRef of the host: the 2000 ms timer is pending
    myPlayerId,  \* per participant: the state myPlayerId (NoId while null)
    \* ---- local simulation: the state of the hook
    aiGame,      \* gameState (Null before startGame)
    isProcessing,
    pendingTrickResolution,
    aiTimers,    \* the pending setTimeout callbacks with what they closed over
    aiEvent,     \* what the last step of the simulation did
    exits        \* the number of calls of exitGame so far

relayVars == <<players, hostId, gameState, idCount, connections, clients, inbox, outbox>>
rulesVars == <<rulesIn, rulesOut>>
meshVars == <<peerGame, peerHand, hostLink, peerLink, toPeer, toHost, trickTimeout,
              myPlayerId>>
localVars == <<aiGame, isProcessing, pendingTrickResolution, aiTimers, aiEvent, exits>>
vars == <<variant, players, hostId, gameState, idCount, connections, clients, inbox, outbox,
          rulesIn, rulesOut,
          peerGame, peerHand, hostLink, peerLink, toPeer, toHost, trickTimeout,
          myPlayerId,
          aiGame, isProcessing, pendingTrickResolution, aiTimers, aiEvent, exits>>

\* JavaScript's null, for a record-valued variable or field
Null == [null |-> TRUE]

(***************************************************************************)
(* Generic helpers over sequences (JavaScript array methods).              *)
(***************************************************************************)
Range(s) == {s[i] : i \in DOMAIN s}

RECURSIVE SeqSum(_)
SeqSum(s) == IF s = <<>> THEN 0 ELSE Head(s) + SeqSum(Tail(s))

\* Array.prototype.filter
Filter(s, Test(_)) == SelectSeq(s, Test)

\* Array.prototype.findIndex, 1-based; 0 when absent (JavaScript's -1)
FindIndex(s, Test(_)) ==
    LET found == {i \in DOMAIN s : Test(s[i])}
    IN  IF found = {} THEN 0 ELSE CHOOSE i \in found : \A j \in found : i <= j

\* Array.prototype.splice(index, 1), 1-based
RemoveAt(s, i) == SubSeq(s, 1, i-1) \o SubSeq(s, i+1, Len(s))

\* the ascending sequence of a finite set of integers
RECURSIVE SetToSeq(_)
SetToSeq(S) ==
    IF S = {} THEN <<>>
    ELSE LET m == CHOOSE x \in S : \A y \in S : x <= y
         IN <<m>> \o SetToSeq(S \ {m})

(***************************************************************************)
(* constants/cards                                                         *)
(***************************************************************************)
SUITS == <<"oros", "copas", "espadas", "bastos">>

CARD_NUMBERS == <<1, 2, 3, 4, 5, 6, 7, 10, 11, 12>>

CARD_VALUES ==
    [n \in Range(CARD_NUMBERS) |->
        CASE n = 1 -> 11
          [] n = 3 -> 10
          [] n = 10 -> 2
          [] n = 11 -> 3
          [] n = 12 -> 4
          [] OTHER -> 0]

CARD_STRENGTH ==
    [n \in Range(CARD_NUMBERS) |->
        CASE n = 2 -> 0
          [] n = 4 -> 1
          [] n = 5 -> 2
          [] n = 6 -> 3
          [] n = 7 -> 4
          [] n = 10 -> 5
          [] n = 11 -> 6
          [] n = 12 -> 7
          [] n = 3 -> 8
          [] n = 1 -> 9]

LAST_TRICK_BONUS == 10

\* CANTE_POINTS['20'] and CANTE_POINTS['40'] ('tute' is never added)
CANTE_POINTS == [t \in {"20", "40"} |-> IF t = "20" THEN 20 ELSE 40]

\* the id string `${suit}-${number}` is the pair itself
createCard(suit, number) ==
    [id |-> <<suit, number>>, suit |-> suit, number |-> number,
     value |-> CARD_VALUES[number]]

\* a deck whose suits change with every card while the numbers stay
createDeckRepeats ==
    [k \in 1..(Len(SUITS) * Len(CARD_NUMBERS)) |->
        createCard(SUITS[((k - 1) % Len(SUITS)) + 1],
                   CARD_NUMBERS[((k - 1) % Len(SUITS)) + 1])]

\* for suit of SUITS, for number of CARD_NUMBERS: push
createDeck ==
    [k \in 1..(Len(SUITS) * Len(CARD_NUMBERS)) |->
        createCard(SUITS[((k - 1) \div Len(CARD_NUMBERS)) + 1],
                   CARD_NUMBERS[((k - 1) % Len(CARD_NUMBERS)) + 1])]

(***************************************************************************)
(* utils/rules                                                             *)
(***************************************************************************)
\* trick.filter(suit).sort(by strength, descending): the plays of a suit,
\* strongest first; the code reads element [0], undefined when none was played
RECURSIVE SortByStrengthDesc(_)
SortByStrengthDesc(s) ==
    IF s = <<>> THEN <<>>
    ELSE LET i == CHOOSE i \in DOMAIN s :
                    /\ \A j \in DOMAIN s :
                          CARD_STRENGTH[s[j].card.number] <= CARD_STRENGTH[s[i].card.number]
                    /\ \A j \in 1..(i-1) :
                          CARD_STRENGTH[s[j].card.number] < CARD_STRENGTH[s[i].card.number]
         IN <<s[i]>> \o SortByStrengthDesc(RemoveAt(s, i))

\* getValidCards without the fallback to all trumps when none beats the trick's
getValidCardsNoFallback(hand, currentTrick, trumpSuit) ==
    IF Len(currentTrick) = 0 THEN hand
    ELSE
    LET leadSuit == currentTrick[1].card.suit
        suitCards == Filter(hand, LAMBDA c : c.suit = leadSuit)
        trumpCards == Filter(hand, LAMBDA c : c.suit = trumpSuit)
        leadPlays == SortByStrengthDesc(Filter(currentTrick, LAMBDA pc : pc.card.suit = leadSuit))
        trumpPlays == SortByStrengthDesc(Filter(currentTrick, LAMBDA pc : pc.card.suit = trumpSuit))
        higherCards == Filter(suitCards, LAMBDA c :
            CARD_STRENGTH[c.number] > CARD_STRENGTH[leadPlays[1].card.number])
        higherTrumps == Filter(trumpCards, LAMBDA c :
            CARD_STRENGTH[c.number] > CARD_STRENGTH[trumpPlays[1].card.number])
    IN  IF Len(suitCards) > 0 THEN
            IF Len(higherCards) > 0 THEN higherCards ELSE suitCards
        ELSE IF trumpPlays # <<>> /\ Len(trumpCards) > 0 THEN higherTrumps
        ELSE IF Len(trumpCards) > 0 THEN trumpCards
        ELSE hand

getValidCards(hand, currentTrick, trumpSuit) ==
    IF Len(currentTrick) = 0 THEN hand
    ELSE
    LET leadSuit == currentTrick[1].card.suit
        isLeadTrump == leadSuit = trumpSuit
        suitCards == Filter(hand, LAMBDA c : c.suit = leadSuit)
        trumpCards == Filter(hand, LAMBDA c : c.suit = trumpSuit)
        leadPlays == SortByStrengthDesc(Filter(currentTrick, LAMBDA pc : pc.card.suit = leadSuit))
        trumpPlays == SortByStrengthDesc(Filter(currentTrick, LAMBDA pc : pc.card.suit = trumpSuit))
        highestLeadCard == leadPlays[1]
        hasHighestTrumpInTrick == trumpPlays # <<>>
        highestTrumpInTrick == trumpPlays[1]
        higherCards == Filter(suitCards, LAMBDA c :
            CARD_STRENGTH[c.number] > CARD_STRENGTH[highestLeadCard.card.number])
        higherTrumps == Filter(trumpCards, LAMBDA c :
            CARD_STRENGTH[c.number] > CARD_STRENGTH[highestTrumpInTrick.card.number])
    IN  IF Len(suitCards) > 0 THEN
            \* both branches of isLeadTrump compute the same filter
            IF Len(higherCards) > 0 THEN higherCards ELSE suitCards
        ELSE IF hasHighestTrumpInTrick /\ Len(trumpCards) > 0 THEN
            IF Len(higherTrumps) > 0 THEN higherTrumps ELSE trumpCards
        ELSE IF Len(trumpCards) > 0 /\ ~hasHighestTrumpInTrick THEN trumpCards
        ELSE hand

\* reduce((highest, current) => strength(current) > strength(highest) ? current : highest)
RECURSIVE ReduceHighest(_, _)
ReduceHighest(highest, rest) ==
    IF rest = <<>> THEN highest
    ELSE ReduceHighest(
            IF CARD_STRENGTH[Head(rest).card.number] > CARD_STRENGTH[highest.card.number]
            THEN Head(rest) ELSE highest,
            Tail(rest))

\* getTrickWinner that looks at the lead suit only
getTrickWinnerLeadOnly(trick, trumpSuit) ==
    LET leadSuitCards == Filter(trick, LAMBDA pc : pc.card.suit = trick[1].card.suit)
    IN  ReduceHighest(Head(leadSuitCards), Tail(leadSuitCards))

\* precondition: trick is not empty (the code throws on an empty trick)
getTrickWinner(trick, trumpSuit) ==
    LET leadSuit == trick[1].card.suit
        trumpsPlayed == Filter(trick, LAMBDA pc : pc.card.suit = trumpSuit)
        leadSuitCards == Filter(trick, LAMBDA pc : pc.card.suit = leadSuit)
    IN  IF Len(trumpsPlayed) > 0
        THEN ReduceHighest(Head(trumpsPlayed), Tail(trumpsPlayed))
        ELSE ReduceHighest(Head(leadSuitCards), Tail(leadSuitCards))

calculateTrickPoints(trick) ==
    SeqSum([i \in DOMAIN trick |-> trick[i].card.value])


\* a check that ignores an earlier declaration of the team
canDeclare20or40Again(hand, trumpSuit, teamWonLastTrick, alreadyDeclaredThisRound) ==
    IF ~teamWonLastTrick
    THEN [canDeclare |-> FALSE, availableCantes |-> <<>>]
    ELSE
    LET hasPair(suit) == /\ \E i \in DOMAIN hand : hand[i].suit = suit /\ hand[i].number = 12
                         /\ \E i \in DOMAIN hand : hand[i].suit = suit /\ hand[i].number = 11
        pairs == Filter(SUITS, hasPair)
        availableCantes == [i \in DOMAIN pairs |->
            [type |-> IF pairs[i] = trumpSuit THEN "40" ELSE "20", suit |-> pairs[i]]]
    IN  [canDeclare |-> Len(availableCantes) > 0, availableCantes |-> availableCantes]

canDeclare20or40(hand, trumpSuit, teamWonLastTrick, alreadyDeclaredThisRound) ==
    IF ~teamWonLastTrick \/ alreadyDeclaredThisRound
    THEN [canDeclare |-> FALSE, availableCantes |-> <<>>]
    ELSE
    LET hasPair(suit) == /\ \E i \in DOMAIN hand : hand[i].suit = suit /\ hand[i].number = 12
                         /\ \E i \in DOMAIN hand : hand[i].suit = suit /\ hand[i].number = 11
        pairs == Filter(SUITS, hasPair)
        availableCantes == [i \in DOMAIN pairs |->
            [type |-> IF pairs[i] = trumpSuit THEN "40" ELSE "20", suit |-> pairs[i]]]
    IN  [canDeclare |-> Len(availableCantes) > 0, availableCantes |-> availableCantes]

canDeclareTute(hand, isFirstTrickWonByTeam, teamHasDeclared20or40) ==
    IF ~isFirstTrickWonByTeam \/ teamHasDeclared20or40
    THEN [canDeclare |-> FALSE, type |-> "null"]
    ELSE
    LET kings == Filter(hand, LAMBDA c : c.number = 12)
        knights == Filter(hand, LAMBDA c : c.number = 11)
    IN  IF Len(kings) = 4 THEN [canDeclare |-> TRUE, type |-> "reyes"]
        ELSE IF Len(knights) = 4 THEN [canDeclare |-> TRUE, type |-> "caballos"]
        ELSE [canDeclare |-> FALSE, type |-> "null"]

\* the 20/40 points of a team's declarations (tute entries are skipped)
CantePoints(cantes) ==
    SeqSum([i \in DOMAIN cantes |->
        IF cantes[i].type # "tute" THEN CANTE_POINTS[cantes[i].type] ELSE 0])

\* a round score without the 10 points of the last trick
calculateRoundScoreNoBonus(team0Tricks, team1Tricks, team0Cantes, team1Cantes, lastTrickWinnerTeam) ==
    LET cards0 == SeqSum([i \in DOMAIN team0Tricks |-> team0Tricks[i].value])
        cards1 == SeqSum([i \in DOMAIN team1Tricks |-> team1Tricks[i].value])
        base0 == cards0
        base1 == cards1
        team0HasTute == \E i \in DOMAIN team0Cantes : team0Cantes[i].type = "tute"
        team1HasTute == \E i \in DOMAIN team1Cantes : team1Cantes[i].type = "tute"
        team0Points == base0 + CantePoints(team0Cantes)
        team1Points == base1 + CantePoints(team1Cantes)
    IN  IF team0HasTute THEN [team0Points |-> 999, team1Points |-> 0, winner |-> 0]
        ELSE IF team1HasTute THEN [team0Points |-> 0, team1Points |-> 999, winner |-> 1]
        ELSE [team0Points |-> team0Points, team1Points |-> team1Points,
              winner |-> IF team0Points > team1Points THEN 0
                         ELSE IF team1Points > team0Points THEN 1
                         ELSE lastTrickWinnerTeam]

calculateRoundScore(team0Tricks, team1Tricks, team0Cantes, team1Cantes, lastTrickWinnerTeam) ==
    LET cards0 == SeqSum([i \in DOMAIN team0Tricks |-> team0Tricks[i].value])
        cards1 == SeqSum([i \in DOMAIN team1Tricks |-> team1Tricks[i].value])
        base0 == cards0 + (IF lastTrickWinnerTeam = 0 THEN LAST_TRICK_BONUS ELSE 0)
        base1 == cards1 + (IF lastTrickWinnerTeam = 0 THEN 0 ELSE LAST_TRICK_BONUS)
        team0HasTute == \E i \in DOMAIN team0Cantes : team0Cantes[i].type = "tute"
        team1HasTute == \E i \in DOMAIN team1Cantes : team1Cantes[i].type = "tute"
        team0Points == base0 + CantePoints(team0Cantes)
        team1Points == base1 + CantePoints(team1Cantes)
    IN  IF team0HasTute THEN [team0Points |-> 999, team1Points |-> 0, winner |-> 0]
        ELSE IF team1HasTute THEN [team0Points |-> 0, team1Points |-> 999, winner |-> 1]
        ELSE [team0Points |-> team0Points, team1Points |-> team1Points,
              winner |-> IF team0Points > team1Points THEN 0
                         ELSE IF team1Points > team0Points THEN 1
                         ELSE lastTrickWinnerTeam]

(***************************************************************************)
(* utils/deck                                                              *)
(***************************************************************************)
\* a deal that turns up the last card of the first hand
dealCardsFirstHand(deck, numPlayers) ==
    LET cardsPerPlayer == Len(deck) \div numPlayers
        hands == [i \in 1..numPlayers |->
                    SubSeq(deck, (i - 1) * cardsPerPlayer + 1, i * cardsPerPlayer)]
        trumpCard == hands[1][cardsPerPlayer]
    IN  [hands |-> hands, trumpCard |-> trumpCard, trumpSuit |-> trumpCard.suit]

dealCards(deck, numPlayers) ==
    LET cardsPerPlayer == Len(deck) \div numPlayers
        hands == [i \in 1..numPlayers |->
                    SubSeq(deck, (i - 1) * cardsPerPlayer + 1, i * cardsPerPlayer)]
        trumpCard == hands[numPlayers][cardsPerPlayer]
    IN  [hands |-> hands, trumpCard |-> trumpCard, trumpSuit |-> trumpCard.suit]

getTeamFromPosition(position) == position % 2

\* hand.sort(comparator): the comparator orders by suit, the trump suit first
\* and the others as in SUITS, then by number in the order ace, three, king,
\* knight, jack, 7, 6, 5, 4, 2.  No two cards compare equal, so the sorted hand
\* is the hand's cards in the order in which the fully sorted deck holds them.
SortedDeck(trumpSuit) ==
    LET suitOrder == <<trumpSuit>> \o Filter(SUITS, LAMBDA x : x # trumpSuit)
        strengthOrder == <<1, 3, 12, 11, 10, 7, 6, 5, 4, 2>>
    IN  [k \in 1..(Len(suitOrder) * Len(strengthOrder)) |->
            createCard(suitOrder[((k - 1) \div Len(strengthOrder)) + 1],
                       strengthOrder[((k - 1) % Len(strengthOrder)) + 1])]

sortHand(hand, trumpSuit) ==
    Filter(SortedDeck(trumpSuit), LAMBDA c : \E i \in DOMAIN hand : hand[i].id = c.id)

\* createShuffledDeck: a uniform shuffle can return any permutation of the
\* deck; the model draws it from the first NumDecks of these permutations:
\* deck 1 deals rank by rank (seat 3 receives the four knights and the four
\* kings), the others walk the deck with a stride coprime to its length
NumDecks == 2

DeckStrides == <<7, 11, 13, 17, 19, 21, 23, 27, 29>>

DeckOf(k) ==
    LET n == Len(createDeck)
        perSuit == Len(CARD_NUMBERS)
        suits == Len(SUITS)
    IN  [i \in 1..n |->
            IF k = 1
            THEN createDeck[((i - 1) % suits) * perSuit + ((i - 1) \div suits) + 1]
            ELSE createDeck[(((i - 1) * DeckStrides[k - 1]) % n) + 1]]

ShuffledDecks == {DeckOf(k) : k \in 1..NumDecks}

\* the deck cut at r: its cards from the r+1-th on, then its first r
CutDeck(deck, r) == [i \in 1..Len(deck) |-> deck[((i - 1 + r) % Len(deck)) + 1]]

\* deck 1 with its first four cards (the aces) and its last four (the kings)
\* exchanged: seat 3 receives the four knights and the four aces and no king
KnightsDeck ==
    LET n == Len(createDeck)
    IN  [i \in 1..n |->
            IF i <= 4 THEN DeckOf(1)[n - 4 + i]
            ELSE IF i > n - 4 THEN DeckOf(1)[i - (n - 4)]
            ELSE DeckOf(1)[i]]

(***************************************************************************)
(* hooks/useAIGame: the local simulation's own copy of the rules           *)
(***************************************************************************)
AI_CARD_STRENGTH ==
    [n \in Range(CARD_NUMBERS) |->
        CASE n = 1 -> 14
          [] n = 3 -> 13
          [] OTHER -> n]

\* CARD_STRENGTH[card.number] || card.number, +100 for trump, +50 for lead suit
aiGetCardStrength(card, trumpSuit, leadSuit) ==
    LET baseStrength == AI_CARD_STRENGTH[card.number]
    IN  IF card.suit = trumpSuit THEN baseStrength + 100
        ELSE IF card.suit = leadSuit THEN baseStrength + 50
        ELSE baseStrength

\* the loop of determineTrickWinner over trick[i..], keeping the first maximum
RECURSIVE aiWinnerLoop(_, _, _, _, _)
aiWinnerLoop(trick, i, winner, trumpSuit, leadSuit) ==
    IF i > Len(trick) THEN winner
    ELSE aiWinnerLoop(trick, i + 1,
            IF aiGetCardStrength(trick[i].card, trumpSuit, leadSuit)
                 > aiGetCardStrength(winner.card, trumpSuit, leadSuit)
            THEN trick[i] ELSE winner,
            trumpSuit, leadSuit)

\* precondition: trick is not empty
aiDetermineTrickWinner(trick, trumpSuit) ==
    [winner |-> aiWinnerLoop(trick, 2, trick[1], trumpSuit, trick[1].card.suit),
     points |-> SeqSum([i \in DOMAIN trick |-> trick[i].card.value])]

aiGetValidCards(hand, currentTrick, trumpSuit) ==
    IF Len(currentTrick) = 0 THEN hand
    ELSE
    LET leadSuit == currentTrick[1].card.suit
        cardsOfLeadSuit == Filter(hand, LAMBDA c : c.suit = leadSuit)
        currentWinner == aiDetermineTrickWinner(currentTrick, trumpSuit).winner
        winnerStrength == aiGetCardStrength(currentWinner.card, trumpSuit, leadSuit)
        winningCards == Filter(cardsOfLeadSuit, LAMBDA c :
            aiGetCardStrength(c, trumpSuit, leadSuit) > winnerStrength)
        trumpCards == Filter(hand, LAMBDA c : c.suit = trumpSuit)
        winnerIsTrump == currentWinner.card.suit = trumpSuit
        higherTrumps == Filter(trumpCards, LAMBDA c :
            aiGetCardStrength(c, trumpSuit, leadSuit) > winnerStrength)
    IN  IF Len(cardsOfLeadSuit) > 0 THEN
            IF Len(winningCards) > 0 THEN winningCards ELSE cardsOfLeadSuit
        ELSE IF Len(trumpCards) > 0 THEN
            IF winnerIsTrump /\ Len(higherTrumps) > 0 THEN higherTrumps ELSE trumpCards
        ELSE hand

(***************************************************************************)
(* party/server: class TuteServer                                          *)
(*                                                                         *)
(* A handler runs to its end before the next message is handled: every     *)
(* mutation of this.state is made before the handler's first await on the  *)
(* room storage, so a handler is one atomic step.  Player names, lastSeen  *)
(* and the room code play no role in any decision and are left out.        *)
(***************************************************************************)
NoConn == 0      \* connectionId: null
NoId == 0        \* hostId "", lastTrickWinner null, myPlayerId null

\* generatePlayerId / generatePlayerSecret: the n-th call returns a fresh id
\* and the secret that belongs to it
generatePlayerId(n) == n
generatePlayerSecret(n) == 100 + n

TARGET_ROUNDS == 3

\* The clients (hooks/usePartyGame).  A client opens one WebSocket at a time;
\* the server numbers the connections, here so that the number tells the
\* client and which of its sockets it is.  A message the server sends is
\* handled by the client in the step that sends it.
NumClients == 4

Clients == 1..NumClients

ClientOf(conn) == ((conn - 1) % NumClients) + 1

ConnOf(client, socket) == client + NumClients * (socket - 1)

NoClient == [playerId |-> NoId, playerSecret |-> 0, sockets |-> 0, joined |-> FALSE]

\* handleServerMessage on ROOM_CREATED and ROOM_JOINED: the credentials go to
\* localStorage
StoreCredentials(conn, playerId, playerSecret) ==
    [clients EXCEPT ![ClientOf(conn)].playerId = playerId,
                    ![ClientOf(conn)].playerSecret = playerSecret,
                    ![ClientOf(conn)].joined = TRUE]

\* a turn that stays with the seat that played
getNextPlayerIndexStay(current) == current

\* a turn that passes the other way round
getNextPlayerIndexClockwise(current) == (current + 1) % 4

getNextPlayerIndex(current) == (current + 3) % 4

\* players.find(p => p.connectionId === conn.id): index in the roster, 0 if none
FindByConn(conn) == FindIndex(players, LAMBDA p : p.connectionId = conn)

\* gameState.players.findIndex(p => p.id === id), 1-based, 0 if none
GamePlayerIndex(gs, id) == FindIndex(gs.players, LAMBDA gp : gp.id = id)

Send(conn, msg) == <<[to |-> conn, msg |-> msg]>>

\* an error that always carries the code INVALID_CARD
sendErrorInvalidCard(conn, code) ==
    <<[to |-> conn, msg |-> [type |-> "ERROR", code |-> "INVALID_CARD"]]>>

\* an error that goes to every open connection
sendErrorToAll(conn, code) ==
    [i \in 1..Cardinality(connections) |->
        [to |-> SetToSeq(connections)[i], msg |-> [type |-> "ERROR", code |-> code]]]

sendError(conn, code) == Send(conn, [type |-> "ERROR", code |-> code])

\* broadcast: to every seat of the roster whose connection is open
broadcast(roster, msg, exclude) ==
    LET targets == Filter(roster, LAMBDA p :
            /\ p.connectionId # NoConn
            /\ p.connectionId \notin exclude
            /\ p.connectionId \in connections)
    IN  [i \in DOMAIN targets |-> [to |-> targets[i].connectionId, msg |-> msg]]

getPublicPlayer(p, gs) ==
    LET gi == IF gs = Null THEN 0 ELSE GamePlayerIndex(gs, p.id)
    IN  [id |-> p.id,
         position |-> p.position,
         team |-> getTeamFromPosition(p.position),
         cardCount |-> IF gi = 0 THEN 0 ELSE Len(gs.players[gi].hand),
         connectionStatus |-> IF p.connectionId # NoConn THEN "connected" ELSE "disconnected",
         isHost |-> p.id = hostId]

getPublicPlayers(roster, gs) == [i \in DOMAIN roster |-> getPublicPlayer(roster[i], gs)]

\* the ClientGameState built by sendGameStateToPlayer for a seat of the game
ClientState(roster, gs, playerId) ==
    LET player == gs.players[GamePlayerIndex(gs, playerId)]
        current == gs.players[gs.currentPlayerIndex + 1]
        valid == getValidCards(player.hand, gs.currentTrick, gs.trumpSuit)
    IN  [phase |-> gs.phase,
         myId |-> playerId,
         myHand |-> player.hand,
         players |-> getPublicPlayers(roster, gs),
         trumpSuit |-> gs.trumpSuit,
         trumpCard |-> gs.trumpCard,
         currentTrick |-> gs.currentTrick,
         currentPlayerId |-> current.id,
         isMyTurn |-> current.id = playerId,
         scores |-> gs.scores,
         roundNumber |-> gs.roundNumber,
         targetRounds |-> gs.targetRounds,
         canDeclare |-> gs.canDeclare /\ player.id = gs.lastTrickWinner,
         validCards |-> IF current.id = playerId
                        THEN [i \in DOMAIN valid |-> valid[i].id] ELSE <<>>,
         winner |-> IF gs.phase = "gameEnd"
                    THEN (IF gs.scores[1].roundsWon >= gs.targetRounds THEN 0 ELSE 1)
                    ELSE -1]

\* a projection that is never sent
sendGameStateToPlayerNever(roster, gs, conn, playerId) == <<>>

sendGameStateToPlayer(roster, gs, conn, playerId) ==
    IF gs = Null THEN <<>>
    ELSE IF GamePlayerIndex(gs, playerId) = 0 THEN <<>>
    ELSE Send(conn, [type |-> "GAME_STATE", state |-> ClientState(roster, gs, playerId)])

sendGameStateToAll(roster, gs) ==
    LET targets == Filter(roster, LAMBDA p :
            /\ p.connectionId # NoConn
            /\ p.connectionId \in connections
            /\ gs # Null
            /\ GamePlayerIndex(gs, p.id) # 0)
    IN  [i \in DOMAIN targets |->
            [to |-> targets[i].connectionId,
             msg |-> [type |-> "GAME_STATE",
                      state |-> ClientState(roster, gs, targets[i].id)]]]

\* the cards won by a team: players.filter(team).flatMap(p => p.tricksWon)
RECURSIVE FlatTricks(_, _)
FlatTricks(gamePlayers, team) ==
    IF gamePlayers = <<>> THEN <<>>
    ELSE (IF Head(gamePlayers).team = team THEN Head(gamePlayers).tricksWon ELSE <<>>)
         \o FlatTricks(Tail(gamePlayers), team)

\* The methods below change this.state.gameState and send messages.  Each is
\* written as the rest of the handler that calls it: gs is the game state it
\* starts from, sent the messages the handler has sent so far, and deck the
\* shuffle it draws if it deals.  Its value is what the handler leaves:
\* [gs |-> the game state, out |-> the messages sent].

\* the hands and the round fields after startNewRound dealt
NewRound(gs, dealt) ==
    [gs EXCEPT
        !.players = [i \in DOMAIN gs.players |->
            [gs.players[i] EXCEPT !.hand = sortHand(dealt.hands[i], dealt.trumpSuit),
                                  !.tricksWon = <<>>]],
        !.trumpSuit = dealt.trumpSuit,
        !.trumpCard = dealt.trumpCard,
        !.currentTrick = <<>>,
        !.roundNumber = gs.roundNumber + 1,
        !.phase = "playing",
        !.scores = [t \in DOMAIN gs.scores |->
            [gs.scores[t] EXCEPT !.roundPoints = 0, !.cantes = <<>>]],
        !.lastTrickWinner = NoId,
        !.canDeclare = FALSE,
        !.currentPlayerIndex = (gs.leadPlayerIndex + 3) % 4,
        !.leadPlayerIndex = (gs.leadPlayerIndex + 3) % 4]

\* the state a handler leaves and the GAME_STATE messages that close it
SendGameStateToAllAfter(gs, sent) ==
    [gs |-> gs, out |-> sent \o sendGameStateToAll(players, gs)]

\* the handler ends: this.state.gameState and the messages on the wire
Leaves(result) ==
    /\ gameState' = result.gs
    /\ outbox' = result.out

startNewRound(gs, deck, sent) ==
    SendGameStateToAllAfter(NewRound(gs, dealCards(deck, 4)), sent)

\* the scores after endRound applied the round's score
Scored(gs, score) ==
    [gs EXCEPT
        !.scores[1].roundPoints = score.team0Points,
        !.scores[2].roundPoints = score.team1Points,
        !.scores[score.winner + 1].roundsWon = @ + 1]

\* gameState.players.find(p => p.id === gameState.lastTrickWinner)?.team || 0
LastWinnerTeam(gs) ==
    IF GamePlayerIndex(gs, gs.lastTrickWinner) = 0 THEN 0
    ELSE gs.players[GamePlayerIndex(gs, gs.lastTrickWinner)].team

RoundScore(gs) ==
    calculateRoundScore(FlatTricks(gs.players, 0), FlatTricks(gs.players, 1),
                        gs.scores[1].cantes, gs.scores[2].cantes, LastWinnerTeam(gs))

\* a round end that lets the game go on until the target is exceeded
EndRoundAfterLate(gs, winner, deck, sent) ==
    IF gs.scores[winner + 1].roundsWon > gs.targetRounds
    THEN [gs |-> [gs EXCEPT !.phase = "gameEnd"],
          out |-> sent
                \o broadcast(players, [type |-> "ROUND_END", scores |-> gs.scores], {})
                \o broadcast(players, [type |-> "GAME_END", winnerTeam |-> winner], {})]
    ELSE startNewRound(gs, deck,
            sent \o broadcast(players, [type |-> "ROUND_END", scores |-> gs.scores], {}))

\* endRound once the round's score is applied: game end or a new round
EndRoundAfter(gs, winner, deck, sent) ==
    IF gs.scores[winner + 1].roundsWon >= gs.targetRounds
    THEN [gs |-> [gs EXCEPT !.phase = "gameEnd"],
          out |-> sent
                \o broadcast(players, [type |-> "ROUND_END", scores |-> gs.scores], {})
                \o broadcast(players, [type |-> "GAME_END", winnerTeam |-> winner], {})]
    ELSE startNewRound(gs, deck,
            sent \o broadcast(players, [type |-> "ROUND_END", scores |-> gs.scores], {}))

EndRoundWith(gs, score, deck, sent) ==
    EndRoundAfter(Scored(gs, score), score.winner, deck, sent)

endRound(gs, deck, sent) == EndRoundWith(gs, RoundScore(gs), deck, sent)

\* checkCanDeclare(player) on gs, called by resolveTrick after the trick was
\* moved to the winner's pile and cleared
checkCanDeclare(gs, pi) ==
    LET player == gs.players[pi]
        teamScore == gs.scores[player.team + 1]
        can20or40 == canDeclare20or40(player.hand, gs.trumpSuit, TRUE,
            \E i \in DOMAIN teamScore.cantes : teamScore.cantes[i].type \in {"20", "40"})
        isFirstWin == ~\E i \in DOMAIN gs.players :
            /\ gs.players[i].team = player.team
            /\ gs.players[i].id # player.id
            /\ Len(gs.players[i].tricksWon) > 0
        canTute == canDeclareTute(player.hand,
            isFirstWin /\ Len(player.tricksWon) = Len(gs.currentTrick),
            Len(teamScore.cantes) > 0)
    IN  can20or40.canDeclare \/ canTute.canDeclare

\* a resolution that loses the trick's last card
TrickWonLosesCard(gs, winnerId, wi, points) ==
    [gs EXCEPT
        !.players[wi].tricksWon =
            @ \o [i \in 1..3 |-> gs.currentTrick[i].card],
        !.scores[gs.players[wi].team + 1].roundPoints = @ + points,
        !.currentTrick = <<>>,
        !.lastTrickWinner = winnerId]

\* the trick moved to the winner's pile, its points added, the trick cleared
TrickWon(gs, winnerId, wi, points) ==
    [gs EXCEPT
        !.players[wi].tricksWon =
            @ \o [i \in DOMAIN gs.currentTrick |-> gs.currentTrick[i].card],
        !.scores[gs.players[wi].team + 1].roundPoints = @ + points,
        !.currentTrick = <<>>,
        !.lastTrickWinner = winnerId]

CanDeclareChecked(gs, wi) == [gs EXCEPT !.canDeclare = checkCanDeclare(gs, wi)]

\* resolveTrick from the check of the declarations on: round end or next lead
ResolveTrickAfter(gs, wi, deck, sent) ==
    IF \A i \in DOMAIN gs.players : Len(gs.players[i].hand) = 0
    THEN endRound(gs, deck, sent)
    ELSE SendGameStateToAllAfter(
            [gs EXCEPT !.currentPlayerIndex = wi - 1, !.leadPlayerIndex = wi - 1], sent)

ResolveTrickWith(gs, winnerId, wi, points, deck, sent) ==
    ResolveTrickAfter(CanDeclareChecked(TrickWon(gs, winnerId, wi, points), wi), wi, deck,
        sent \o broadcast(players,
            [type |-> "TRICK_WON", winnerId |-> winnerId, points |-> points], {}))

\* resolveTrick on gs, whose trick holds 4 plays
resolveTrick(gs, deck, sent) ==
    ResolveTrickWith(gs,
        getTrickWinner(gs.currentTrick, gs.trumpSuit).playerId,
        GamePlayerIndex(gs, getTrickWinner(gs.currentTrick, gs.trumpSuit).playerId),
        calculateTrickPoints(gs.currentTrick), deck, sent)

RelayIdle ==
    /\ players = <<>>
    /\ hostId = NoId
    /\ gameState = Null
    /\ idCount = 0
    /\ connections = {}
    /\ clients = [client \in Clients |-> NoClient]
    /\ inbox = Null
    /\ outbox = <<>>

RulesIdle ==
    /\ rulesIn = Null
    /\ rulesOut = Null

\* hooks/usePeerGame: the host's peer id is the room code, a joining peer's id
\* is `${code}-${Date.now()}`; the model numbers them, the host first
NumPeers == 3
Host == 1
Peers == 2..(NumPeers + 1)

MeshIdle ==
    /\ peerGame = [p \in {Host} \cup Peers |-> Null]
    /\ peerHand = [p \in {Host} \cup Peers |-> <<>>]
    /\ hostLink = [p \in Peers |-> "none"]
    /\ peerLink = [p \in Peers |-> "none"]
    /\ toPeer = [p \in Peers |-> <<>>]
    /\ toHost = [p \in Peers |-> <<>>]
    /\ trickTimeout = FALSE
    /\ myPlayerId = [p \in {Host} \cup Peers |-> NoId]

LocalIdle ==
    /\ aiGame = Null
    /\ isProcessing = FALSE
    /\ pendingTrickResolution = FALSE
    /\ aiTimers = {}
    /\ aiEvent = Null
    /\ exits = 0

\* what a handler leaves alone besides the relay state
RelayFrame == UNCHANGED <<variant, rulesVars, meshVars, localVars>>

\* a connection opens (onConnect only logs); ids are given in opening order
OnConnect(conn) ==
    /\ variant = "relay"
    /\ conn \notin connections
    /\ connections' = connections \cup {conn}
    /\ clients' = [clients EXCEPT ![ClientOf(conn)].sockets = @ + 1]
    /\ inbox' = [type |-> "connect", from |-> conn]
    /\ outbox' = <<>>
    /\ UNCHANGED <<players, hostId, gameState, idCount>>
    /\ RelayFrame

\* onClose: the connection's first seat in the roster loses its connection
onClose(conn) ==
    /\ variant = "relay"
    /\ conn \in connections
    /\ connections' = connections \ {conn}
    /\ inbox' = [type |-> "close", from |-> conn]
    /\ LET pi == FindByConn(conn)
           roster == [players EXCEPT ![pi].connectionId = NoConn]
       IN  IF pi = 0
           THEN /\ outbox' = <<>>
                /\ UNCHANGED players
           ELSE /\ players' = roster
                /\ outbox' = broadcast(roster, [type |-> "PLAYER_DISCONNECTED",
                                                playerId |-> players[pi].id], {conn})
    /\ UNCHANGED <<hostId, gameState, idCount, clients>>
    /\ RelayFrame

\* CREATE_ROOM
handleCreateRoom(conn) ==
    /\ variant = "relay"
    /\ conn \in connections
    /\ inbox' = [type |-> "CREATE_ROOM", from |-> conn]
    /\ IF Len(players) > 0
       THEN /\ outbox' = sendError(conn, "ROOM_EXISTS")
            /\ UNCHANGED <<players, hostId, idCount, clients>>
       ELSE LET playerId == generatePlayerId(idCount + 1)
                playerSecret == generatePlayerSecret(idCount + 1)
                player == [id |-> playerId, secret |-> playerSecret,
                           position |-> 0, connectionId |-> conn]
            IN  /\ players' = Append(players, player)
                /\ hostId' = playerId
                /\ idCount' = idCount + 1
                /\ outbox' = Send(conn, [type |-> "ROOM_CREATED", playerId |-> playerId,
                                         playerSecret |-> playerSecret])
                /\ clients' = StoreCredentials(conn, playerId, playerSecret)
    /\ UNCHANGED <<gameState, connections>>
    /\ RelayFrame

\* JOIN_ROOM
handleJoinRoom(conn) ==
    /\ variant = "relay"
    /\ conn \in connections
    /\ inbox' = [type |-> "JOIN_ROOM", from |-> conn]
    /\ IF Len(players) >= 4
       THEN /\ outbox' = sendError(conn, "ROOM_FULL")
            /\ UNCHANGED <<players, idCount, clients>>
       ELSE IF gameState # Null /\ gameState.phase # "waiting"
       THEN /\ outbox' = sendError(conn, "GAME_ALREADY_STARTED")
            /\ UNCHANGED <<players, idCount, clients>>
       ELSE LET usedPositions == {players[i].position : i \in DOMAIN players}
                position == CHOOSE q \in 0..3 :
                                q \notin usedPositions /\ \A r \in 0..(q - 1) : r \in usedPositions
                playerId == generatePlayerId(idCount + 1)
                playerSecret == generatePlayerSecret(idCount + 1)
                player == [id |-> playerId, secret |-> playerSecret,
                           position |-> position, connectionId |-> conn]
                roster == Append(players, player)
            IN  /\ players' = roster
                /\ idCount' = idCount + 1
                /\ clients' = StoreCredentials(conn, playerId, playerSecret)
                /\ outbox' =
                     Send(conn, [type |-> "ROOM_JOINED",
                                 status |-> IF Len(roster) = 4 THEN "full" ELSE "waiting",
                                 players |-> getPublicPlayers(roster, gameState),
                                 hostId |-> hostId,
                                 playerId |-> playerId,
                                 playerSecret |-> playerSecret])
                     \o broadcast(roster, [type |-> "PLAYER_JOINED",
                                           player |-> getPublicPlayer(player, gameState)],
                                  {conn})
    /\ UNCHANGED <<hostId, gameState, connections>>
    /\ RelayFrame

\* players.sort((a, b) => a.position - b.position), a stable sort
RECURSIVE SortByPosition(_)
SortByPosition(roster) ==
    IF roster = <<>> THEN <<>>
    ELSE LET i == CHOOSE i \in DOMAIN roster :
                    /\ \A j \in DOMAIN roster : roster[i].position <= roster[j].position
                    /\ \A j \in 1..(i - 1) : roster[j].position > roster[i].position
         IN <<roster[i]>> \o SortByPosition(RemoveAt(roster, i))

\* START_GAME, the shuffle returning deck
handleStartGame(conn, deck) ==
    /\ variant = "relay"
    /\ conn \in connections
    /\ inbox' = [type |-> "START_GAME", from |-> conn]
    /\ LET pi == FindByConn(conn)
       IN  IF pi = 0 \/ (pi # 0 /\ players[pi].id # hostId)
           THEN /\ outbox' = sendError(conn, "NOT_HOST")
                /\ UNCHANGED <<players, gameState>>
           ELSE IF Len(players) # 4
           THEN /\ outbox' = sendError(conn, "NOT_ENOUGH_PLAYERS")
                /\ UNCHANGED <<players, gameState>>
           ELSE LET dealt == dealCards(deck, 4)
                    roster == SortByPosition(players)
                    gamePlayers == [i \in DOMAIN roster |->
                        [id |-> roster[i].id,
                         position |-> roster[i].position,
                         team |-> getTeamFromPosition(roster[i].position),
                         hand |-> sortHand(dealt.hands[i], dealt.trumpSuit),
                         tricksWon |-> <<>>,
                         connectionStatus |-> IF roster[i].connectionId # NoConn
                                              THEN "connected" ELSE "disconnected",
                         isHost |-> roster[i].id = hostId]]
                    gs == [phase |-> "playing",
                           players |-> gamePlayers,
                           trumpSuit |-> dealt.trumpSuit,
                           trumpCard |-> dealt.trumpCard,
                           currentTrick |-> <<>>,
                           currentPlayerIndex |-> 0,
                           leadPlayerIndex |-> 0,
                           scores |-> <<[team |-> 0, roundPoints |-> 0, roundsWon |-> 0, cantes |-> <<>>],
                                        [team |-> 1, roundPoints |-> 0, roundsWon |-> 0, cantes |-> <<>>]>>,
                           roundNumber |-> 1,
                           targetRounds |-> TARGET_ROUNDS,
                           lastTrickWinner |-> NoId,
                           canDeclare |-> FALSE]
                IN  /\ players' = roster
                    /\ gameState' = gs
                    /\ outbox' = broadcast(roster, [type |-> "GAME_STARTING"], {})
                                 \o sendGameStateToAll(roster, gs)
    /\ UNCHANGED <<hostId, idCount, connections, clients>>
    /\ RelayFrame

\* hand.findIndex(c => c.id === cardId), 1-based, 0 if none
CardIndex(hand, cardId) == FindIndex(hand, LAMBDA c : c.id = cardId)

\* PLAY_CARD, deck being the shuffle of the next round if this play ends one
handlePlayCard(conn, cardId, deck) ==
    /\ variant = "relay"
    /\ conn \in connections
    /\ inbox' = [type |-> "PLAY_CARD", from |-> conn, cardId |-> cardId]
    /\ IF gameState = Null \/ (gameState # Null /\ gameState.phase # "playing")
       THEN /\ outbox' = sendError(conn, "NO_GAME")
            /\ UNCHANGED gameState
       ELSE
       LET pi == FindByConn(conn)
           ci == gameState.currentPlayerIndex + 1
           currentPlayer == gameState.players[ci]
           cardIndex == CardIndex(currentPlayer.hand, cardId)
           validCards == getValidCards(currentPlayer.hand, gameState.currentTrick,
                                       gameState.trumpSuit)
           played == [gameState EXCEPT
               !.players[ci].hand = RemoveAt(@, cardIndex),
               !.currentTrick = Append(@, [card |-> currentPlayer.hand[cardIndex],
                                           playerId |-> currentPlayer.id,
                                           position |-> Len(gameState.currentTrick)])]
           cardPlayed == broadcast(players,
               [type |-> "CARD_PLAYED", playerId |-> currentPlayer.id, cardId |-> cardId], {})
       IN  IF pi = 0
           THEN /\ outbox' = <<>>
                /\ UNCHANGED gameState
           ELSE IF currentPlayer.id # players[pi].id
           THEN /\ outbox' = sendError(conn, "NOT_YOUR_TURN")
                /\ UNCHANGED gameState
           ELSE IF cardIndex = 0
           THEN /\ outbox' = sendError(conn, "INVALID_CARD")
                /\ UNCHANGED gameState
           ELSE IF ~\E i \in DOMAIN validCards : validCards[i].id = cardId
           THEN /\ outbox' = sendError(conn, "INVALID_CARD")
                /\ UNCHANGED gameState
           ELSE IF Len(played.currentTrick) = 4
           THEN Leaves(resolveTrick(played, deck, cardPlayed))
           ELSE Leaves(SendGameStateToAllAfter(
                    [played EXCEPT !.currentPlayerIndex = getNextPlayerIndex(@)],
                    cardPlayed))
    /\ UNCHANGED <<players, hostId, idCount, connections, clients>>
    /\ RelayFrame

\* DECLARE_CANTE, deck being the shuffle of the next round if a tute ends this one
handleDeclareCante(conn, canteType, suit, deck) ==
    /\ variant = "relay"
    /\ conn \in connections
    /\ inbox' = [type |-> "DECLARE_CANTE", from |-> conn, canteType |-> canteType, suit |-> suit]
    /\ LET pi == FindByConn(conn)
           gi == IF gameState = Null \/ pi = 0 THEN 0
                 ELSE GamePlayerIndex(gameState, players[pi].id)
       IN  IF gameState = Null \/ pi = 0 \/ gi = 0
           THEN /\ outbox' = <<>>
                /\ UNCHANGED gameState
           ELSE
           LET player == gameState.players[gi]
               cante == [type |-> canteType, playerId |-> player.id, suit |-> suit]
               declared == [gameState EXCEPT
                   !.scores[player.team + 1].cantes = Append(@, cante)]
               canteDeclared == broadcast(players,
                   [type |-> "CANTE_DECLARED", playerId |-> player.id,
                    canteType |-> canteType, suit |-> suit], {})
           IN  IF canteType = "tute"
               THEN Leaves(endRound(declared, deck, canteDeclared))
               ELSE Leaves(SendGameStateToAllAfter([declared EXCEPT !.canDeclare = FALSE],
                                                   canteDeclared))
    /\ UNCHANGED <<players, hostId, idCount, connections, clients>>
    /\ RelayFrame

\* SKIP_CANTE
handleSkipCante(conn) ==
    /\ variant = "relay"
    /\ conn \in connections
    /\ inbox' = [type |-> "SKIP_CANTE", from |-> conn]
    /\ IF gameState = Null
       THEN /\ outbox' = <<>>
            /\ UNCHANGED gameState
       ELSE Leaves(SendGameStateToAllAfter([gameState EXCEPT !.canDeclare = FALSE], <<>>))
    /\ UNCHANGED <<players, hostId, idCount, connections, clients>>
    /\ RelayFrame

\* LEAVE_ROOM.  The client that sends it closes its socket and forgets its
\* credentials (leaveRoom); the onClose that follows finds no seat bound to
\* the connection and changes nothing.
handleLeaveRoom(conn) ==
    /\ variant = "relay"
    /\ conn \in connections
    /\ inbox' = [type |-> "LEAVE_ROOM", from |-> conn]
    /\ connections' = connections \ {conn}
    /\ clients' = [clients EXCEPT ![ClientOf(conn)].playerId = NoId,
                                  ![ClientOf(conn)].playerSecret = 0]
    /\ LET playerIndex == FindByConn(conn)
           roster == RemoveAt(players, playerIndex)
       IN  IF playerIndex = 0
           THEN /\ outbox' = <<>>
                /\ UNCHANGED <<players, hostId>>
           ELSE /\ players' = roster
                /\ hostId' = IF players[playerIndex].id = hostId /\ Len(roster) > 0
                             THEN roster[1].id ELSE hostId
                /\ outbox' = broadcast(roster, [type |-> "PLAYER_LEFT",
                                                playerId |-> players[playerIndex].id],
                                       {conn})
    /\ UNCHANGED <<gameState, idCount>>
    /\ RelayFrame

\* RECONNECT
handleReconnect(conn, playerId, playerSecret) ==
    /\ variant = "relay"
    /\ conn \in connections
    /\ inbox' = [type |-> "RECONNECT", from |-> conn, playerId |-> playerId,
                 playerSecret |-> playerSecret]
    /\ LET pi == FindIndex(players, LAMBDA p : p.id = playerId /\ p.secret = playerSecret)
           roster == [players EXCEPT ![pi].connectionId = conn]
           gi == IF gameState = Null THEN 0 ELSE GamePlayerIndex(gameState, playerId)
           gs == IF gi = 0 THEN gameState
                 ELSE [gameState EXCEPT !.players[gi].connectionStatus = "connected"]
           reconnected == broadcast(roster, [type |-> "PLAYER_RECONNECTED",
                                             playerId |-> playerId], {})
       IN  IF pi = 0
           THEN /\ outbox' = sendError(conn, "RECONNECT_FAILED")
                /\ UNCHANGED <<players, gameState, clients>>
           ELSE /\ players' = roster
                /\ gameState' = gs
                /\ IF gs # Null
                   THEN /\ outbox' = reconnected \o sendGameStateToPlayer(roster, gs, conn, playerId)
                        /\ UNCHANGED clients
                   ELSE /\ outbox' = reconnected \o
                            Send(conn, [type |-> "ROOM_JOINED",
                                        status |-> IF Len(roster) = 4 THEN "full" ELSE "waiting",
                                        players |-> getPublicPlayers(roster, gs),
                                        hostId |-> hostId,
                                        playerId |-> playerId,
                                        playerSecret |-> playerSecret])
                        /\ clients' = StoreCredentials(conn, playerId, playerSecret)
    /\ UNCHANGED <<hostId, idCount, connections>>
    /\ RelayFrame

(***************************************************************************)
(* The relay server and its clients.  The clients are the environment: the *)
(* messages they send are drawn from the sets below.                       *)
(***************************************************************************)
FreeTricks == 2      \* the seat to play chooses freely among its legal cards
                     \* in the last FreeTricks tricks of a round, and plays
                     \* the first of them before
MaxRounds == 1       \* the clients play cards in the first MaxRounds rounds
OffTurnSeats == 1    \* seats after the seat to play that send a card as well
DeclareTricks == 1   \* declarations arrive between tricks: 20/40 and tute in
                     \* the last DeclareTricks tricks of a round and after it,
                     \* tute also before the first card of a round
MaxCantes == 2       \* 20/40 declarations sent while a round's list holds fewer
MaxTutes == 2        \* tute declarations sent while the lists hold fewer
RestartTricks == 0   \* START_GAME arrives in a round while at most RestartTricks
                     \* of its tricks are resolved
MaxSockets == 2      \* sockets a client opens, one after the other
MaxCloses == 1       \* sockets that close, dropped or after a LEAVE_ROOM
DropClients == {2}   \* the clients whose socket drops
LeaveClients == {1}  \* the clients that send LEAVE_ROOM
RejoinClients == {3} \* the clients that send JOIN_ROOM while they hold a seat
DeclareSuits == {"oros"}

\* the cards of the connection's seat in the game, <<>> when it has none
HandOfConn(conn) ==
    LET pi == FindByConn(conn)
        gi == IF pi = 0 \/ gameState = Null THEN 0
              ELSE GamePlayerIndex(gameState, players[pi].id)
    IN  IF gi = 0 THEN <<>> ELSE gameState.players[gi].hand

\* the card ids a client puts in a PLAY_CARD
PlayInputs(conn) ==
    LET hand == HandOfConn(conn)
        notHeld == CHOOSE k \in DOMAIN createDeck :
                      /\ \A i \in DOMAIN hand : hand[i].id # createDeck[k].id
                      /\ \A j \in 1..(k - 1) : \E i \in DOMAIN hand : hand[i].id = createDeck[j].id
        pi == FindByConn(conn)
        myTurn == /\ hand # <<>>
                  /\ gameState.phase = "playing"
                  /\ gameState.players[gameState.currentPlayerIndex + 1].id = players[pi].id
        valid == getValidCards(hand, gameState.currentTrick, gameState.trumpSuit)
        illegal == Filter(hand, LAMBDA c : \A i \in DOMAIN valid : valid[i].id # c.id)
    IN  IF hand = <<>> THEN {createDeck[notHeld].id}
        ELSE IF ~myTurn THEN {hand[1].id}
        ELSE (IF Len(hand) <= FreeTricks THEN {valid[i].id : i \in DOMAIN valid}
              ELSE {valid[1].id})
             \cup (IF illegal = <<>> THEN {} ELSE {illegal[1].id})
             \cup {createDeck[notHeld].id}

CountCantes(types) ==
    IF gameState = Null THEN 0
    ELSE Len(Filter(gameState.scores[1].cantes \o gameState.scores[2].cantes,
                    LAMBDA c : c.type \in types))

\* when a client sends a DECLARE_CANTE of the type
DeclareArrives(canteType) ==
    /\ gameState # Null
    /\ gameState.currentTrick = <<>>
    /\ \/ \A i \in DOMAIN gameState.players :
             Len(gameState.players[i].hand) <= DeclareTricks
       \/ /\ canteType = "tute"
          /\ \A i \in DOMAIN gameState.players : gameState.players[i].tricksWon = <<>>
    /\ IF canteType = "tute" THEN CountCantes({"tute"}) < MaxTutes
       ELSE CountCantes({"20", "40"}) < MaxCantes

\* the connection holds the seat on turn or one of the OffTurnSeats seats
\* after it
NearTurn(conn) ==
    /\ gameState # Null
    /\ FindByConn(conn) # 0
    /\ \E k \in 0..OffTurnSeats :
          gameState.players[((gameState.currentPlayerIndex + k) % 4) + 1].id
             = players[FindByConn(conn)].id

\* the open connection with the lowest number
FirstConn(conn) == \A other \in connections : conn <= other

\* when the client of a connection sends a PLAY_CARD: the first client while
\* no round is being played, and in a round the seat to play and the
\* OffTurnSeats seats after it
PlayArrives(conn) ==
    \/ gameState = Null /\ FirstConn(conn)
    \/ gameState # Null /\ gameState.phase # "playing" /\ FirstConn(conn)
    \/ /\ gameState # Null /\ gameState.phase = "playing"
       /\ gameState.roundNumber <= MaxRounds
       /\ NearTurn(conn)

InitRelay ==
    /\ variant = "relay"
    /\ RelayIdle
    /\ RulesIdle
    /\ MeshIdle
    /\ LocalIdle

\* a client opens a socket when it has none open: its first, another while it
\* holds credentials, or another after it left a room in which a game has been
\* dealt (a client that left the lobby does not come back); the clients open
\* their first sockets in the order of their numbers
Connect == \E client \in Clients :
    /\ clients[client].sockets < MaxSockets
    /\ \/ clients[client].sockets = 0
       \/ clients[client].playerId # NoId
       \/ clients[client].joined /\ gameState # Null
    /\ \A socket \in 1..clients[client].sockets : ConnOf(client, socket) \notin connections
    /\ \A other \in 1..(client - 1) : clients[other].sockets > 0
    /\ OnConnect(ConnOf(client, clients[client].sockets + 1))

\* sockets close in the lobby and between two tricks
BetweenTricks == gameState = Null \/ (gameState # Null /\ gameState.currentTrick = <<>>)

\* sockets closed so far
ClosedSoFar ==
    SeqSum([client \in Clients |-> clients[client].sockets]) - Cardinality(connections)

Close == \E conn \in connections :
    /\ ClosedSoFar < MaxCloses
    /\ BetweenTricks
    /\ ClientOf(conn) \in DropClients
    /\ onClose(conn)

LeaveRoom == \E conn \in connections :
    /\ ClosedSoFar < MaxCloses
    /\ BetweenTricks
    /\ ClientOf(conn) \in LeaveClients
    /\ FindByConn(conn) # 0
    /\ handleLeaveRoom(conn)

\* a client whose connection has no seat, or whose RECONNECT was the last
\* message handled, sends the credentials it stored, or its id with a secret
\* that is not the seat's
Reconnect == \E conn \in connections :
    /\ \/ FindByConn(conn) = 0
       \/ inbox # Null /\ inbox.type = "RECONNECT" /\ inbox.from = conn
    /\ clients[ClientOf(conn)].playerId # NoId
    /\ \E playerSecret \in {clients[ClientOf(conn)].playerSecret, 0} :
          handleReconnect(conn, clients[ClientOf(conn)].playerId, playerSecret)

\* a client asks for a seat while its connection has none, and the clients
\* ask for their first seats in the order of their numbers
AsksForSeat(conn) ==
    /\ FindByConn(conn) = 0
    /\ \A other \in 1..(ClientOf(conn) - 1) : clients[other].joined

CreateRoom == \E conn \in connections :
    /\ AsksForSeat(conn)
    /\ handleCreateRoom(conn)

\* a client of RejoinClients sends JOIN_ROOM again on the connection that
\* holds its seat, before a game is started
AsksAgain(conn) ==
    /\ gameState = Null
    /\ FindByConn(conn) # 0
    /\ ClientOf(conn) \in RejoinClients

JoinRoom == \E conn \in connections :
    /\ AsksForSeat(conn) \/ AsksAgain(conn)
    /\ handleJoinRoom(conn)

\* the shuffles the server can draw while it handles a message: any deck when
\* the handler can deal, and no draw (the empty deck) when it cannot
Shuffles(deals) == IF deals THEN ShuffledDecks \cup {KnightsDeck} ELSE {<<>>}

\* the shuffles the server can draw for the round after the one being played:
\* any deck while the clients play cards in that round, and the first deck
\* when they play none
NextRoundShuffles(deals) ==
    IF deals /\ gameState # Null /\ gameState.roundNumber >= MaxRounds
    THEN {DeckOf(1)}
    ELSE Shuffles(deals)

\* a round is being played and at most RestartTricks of its tricks are
\* resolved
EarlyInRound ==
    /\ gameState.currentTrick = <<>>
    /\ SeqSum([i \in DOMAIN gameState.players |-> Len(gameState.players[i].tricksWon)])
          <= 4 * RestartTricks

\* the host's client and the first client ask for a game when none is being
\* played, and early in a round
StartGame == \E conn \in connections :
    /\ (gameState # Null /\ gameState.phase = "playing") => EarlyInRound
    /\ FirstConn(conn) \/ (FindByConn(conn) # 0 /\ players[FindByConn(conn)].id = hostId)
    /\ \E deck \in Shuffles(/\ FindByConn(conn) # 0
                             /\ players[FindByConn(conn)].id = hostId
                             /\ Len(players) = 4) :
          handleStartGame(conn, deck)

\* the connection's seat holds one card and the trick holds three
LastCardOfRound(conn) ==
    /\ Len(HandOfConn(conn)) = 1
    /\ Len(gameState.currentTrick) = 3

PlayCard == \E conn \in connections :
    /\ PlayArrives(conn)
    /\ \E cardId \in PlayInputs(conn) : \E deck \in NextRoundShuffles(LastCardOfRound(conn)) :
          handlePlayCard(conn, cardId, deck)

\* a 20/40 declaration after the first of a round is the message the server
\* handled last, sent once more by its client
SentAgain(conn, canteType) ==
    \/ canteType = "tute"
    \/ CountCantes({"20", "40"}) = 0
    \/ /\ inbox # Null
       /\ inbox.type = "DECLARE_CANTE"
       /\ inbox.from = conn
       /\ inbox.canteType = canteType

DeclareCante == \E canteType \in {"20", "40", "tute"} :
    /\ DeclareArrives(canteType)
    /\ \E conn \in connections :
          /\ NearTurn(conn)
          /\ SentAgain(conn, canteType)
          /\ \E suit \in DeclareSuits : \E deck \in NextRoundShuffles(canteType = "tute") :
                handleDeclareCante(conn, canteType, suit, deck)

\* a client skips when the server has offered a declaration
SkipCante == \E conn \in connections :
    /\ gameState # Null /\ gameState.canDeclare
    /\ handleSkipCante(conn)

NextRelay ==
    \/ Connect
    \/ CreateRoom
    \/ JoinRoom
    \/ StartGame
    \/ PlayCard
    \/ DeclareCante
    \/ SkipCante
    \/ Close
    \/ LeaveRoom
    \/ Reconnect

Spec == InitRelay /\ [][NextRelay]_vars

(***************************************************************************)
(* hooks/usePeerGame: the peer mesh.  The host keeps the game state, every *)
(* peer keeps the copy it last received and its own hand.  A data          *)
(* connection hands over its messages in the order they were sent.  The    *)
(* handlers read the state through refs, so each sees what the handler     *)
(* before it left.  sendMessage instead closes over the state myPlayerId:  *)
(* createRoom sets only the ref (its setMyPlayerId call is inside the      *)
(* comment of line 435), so the host's sendMessage never sends, and the    *)
(* `open` handler of a joining peer was created by the render in which     *)
(* myPlayerId was still null, so its sync_request is never sent either.    *)
(* Player names, the room code and the message timestamps are left out.    *)
(***************************************************************************)
NoSuit == ""          \* trumpSuit: null
NoPosition == -1      \* currentTrickWinner: null

\* createRoom, peer.on('open'): the initial PeerGameState
meshInitialState(id) ==
    [phase |-> "waiting",
     hostId |-> id,
     players |-> <<[id |-> id, position |-> 0, team |-> 0, cardCount |-> 0]>>,
     currentTrick |-> <<>>,
     currentPlayerIndex |-> 0,
     currentTrickWinner |-> NoPosition,
     trumpSuit |-> NoSuit,
     scores |-> <<[team |-> 0, roundPoints |-> 0, roundsWon |-> 0],
                  [team |-> 1, roundPoints |-> 0, roundsWon |-> 0]>>,
     roundNumber |-> 1]

\* the hook's own determineTrickWinner: the same strengths and the same loop
\* as the local simulation's, returning the `position` stored in the play
meshDetermineTrickWinner(trick, trumpSuit) ==
    IF trick = <<>> THEN [winnerPosition |-> 0, points |-> 0]
    ELSE [winnerPosition |->
              aiWinnerLoop(trick, 2, trick[1], trumpSuit, trick[1].card.suit).position,
          points |-> SeqSum([i \in DOMAIN trick |-> trick[i].card.value])]

\* broadcastMessage in the host: one copy for every open connection of the map
meshBroadcast(links, message) ==
    LET open == SetToSeq({p \in Peers : links[p] = "open"})
    IN  [i \in DOMAIN open |-> [to |-> open[i], message |-> message]]

meshGameStateMessage(gs) == [type |-> "game_state", from |-> Host, data |-> gs]

\* conn.send on the connections the messages are addressed to
meshSend(wire, sends) ==
    [p \in Peers |->
        wire[p] \o [i \in 1..Len(Filter(sends, LAMBDA e : e.to = p)) |->
                       Filter(sends, LAMBDA e : e.to = p)[i].message]]

\* handlePlayerAction, case play_card: the new state, whether the play was
\* taken and whether the 2000 ms timer was set
meshHandlePlayerAction(gs, action) ==
    LET currentPlayer == gs.players[gs.currentPlayerIndex + 1]
        newPlayers == [i \in DOMAIN gs.players |->
            IF gs.players[i].id = action.playerId
            THEN [gs.players[i] EXCEPT !.cardCount = IF @ > 1 THEN @ - 1 ELSE 0]
            ELSE gs.players[i]]
        newTrick == Append(gs.currentTrick,
            [card |-> action.card, playerId |-> action.playerId,
             position |-> Len(gs.currentTrick)])
    IN  IF currentPlayer.id # action.playerId
        THEN [taken |-> FALSE, timer |-> FALSE, state |-> gs]
        ELSE IF Len(newTrick) = 4
        THEN [taken |-> TRUE, timer |-> TRUE,
              state |-> [gs EXCEPT
                  !.players = newPlayers,
                  !.currentTrick = newTrick,
                  !.currentTrickWinner =
                      meshDetermineTrickWinner(newTrick, gs.trumpSuit).winnerPosition]]
        ELSE [taken |-> TRUE, timer |-> FALSE,
              state |-> [gs EXCEPT
                  !.players = newPlayers,
                  !.currentTrick = newTrick,
                  !.currentTrickWinner = NoPosition,
                  !.currentPlayerIndex = (gs.currentPlayerIndex + 1) % 4]]

\* resolveTrick of the hook: whether it went through, and the new state
meshResolveTrick(gs) ==
    LET won == meshDetermineTrickWinner(gs.currentTrick, gs.trumpSuit)
        wi == FindIndex(gs.players, LAMBDA pl : pl.position = won.winnerPosition)
    IN  IF Len(gs.currentTrick) # 4 \/ wi = 0
        THEN [taken |-> FALSE, state |-> gs]
        ELSE [taken |-> TRUE,
              state |-> [gs EXCEPT
                  !.currentTrick = <<>>,
                  !.currentTrickWinner = NoPosition,
                  !.currentPlayerIndex = won.winnerPosition,
                  !.scores = [i \in DOMAIN gs.scores |->
                      IF gs.scores[i].team = gs.players[wi].team
                      THEN [gs.scores[i] EXCEPT !.roundPoints = @ + won.points]
                      ELSE gs.scores[i]]]]

\* startGame: hands[p].push(deck[i * 4 + p]) for i in 0..9, p in 0..3
meshDeal(deck) == [p \in 1..4 |-> [i \in 1..10 |-> deck[(i - 1) * 4 + p]]]

\* startGame: the private hands, one message per seat other than the host's,
\* on the connection stored under the seat's id, if it is open
meshHandMessages(links, seats, hands) ==
    LET others == Filter(seats, LAMBDA pl : pl.id # Host /\ links[pl.id] = "open")
    IN  [i \in DOMAIN others |->
            [to |-> others[i].id,
             message |-> [type |-> "player_action", from |-> Host,
                          data |-> [type |-> "receive_hand",
                                    playerId |-> others[i].id,
                                    cards |-> hands[others[i].position + 1]]]]]

MeshFrame == UNCHANGED <<variant, relayVars, rulesVars, localVars>>

\* sendMessage of a render in which the state myPlayerId had the value id:
\* nothing is sent while it is null or the connection is not open
meshSendMessage(id, open, message) ==
    IF id = NoId \/ ~open THEN <<>> ELSE <<[message EXCEPT !.from = id]>>

\* createRoom, peer.on('open'): the id goes to the ref only (the call of
\* setMyPlayerId is inside the comment of line 435)
meshCreateRoom ==
    /\ variant = "mesh"
    /\ peerGame[Host] = Null
    /\ peerGame' = [peerGame EXCEPT ![Host] = meshInitialState(Host)]
    /\ UNCHANGED <<peerHand, hostLink, peerLink, toPeer, toHost, trickTimeout>>
    /\ UNCHANGED myPlayerId
    /\ MeshFrame

\* joinRoom in a peer: setMyPlayerId, and its connection to the host opens.
\* The `open` handler of setupDataConnection runs first and asks for the
\* state with the sendMessage of the render in which joinRoom was called;
\* then joinRoom's own handler sends player_joined with conn.send
meshJoinRoom(p) ==
    /\ variant = "mesh"
    /\ peerLink[p] = "none"
    /\ peerLink' = [peerLink EXCEPT ![p] = "open"]
    /\ myPlayerId' = [myPlayerId EXCEPT ![p] = p]
    /\ toHost' = [toHost EXCEPT ![p] =
          @ \o meshSendMessage(myPlayerId[p], TRUE, [type |-> "sync_request", from |-> NoId])
            \o <<[type |-> "player_joined", from |-> p, data |-> [playerId |-> p]]>>]
    /\ UNCHANGED <<peerGame, peerHand, hostLink, toPeer, trickTimeout>>
    /\ MeshFrame

\* setupDataConnection in the host, conn.on('open'): the connection enters
\* the map; the game state is not sent (sendMessage never sends in the host)
meshConnectionOpen(p) ==
    /\ variant = "mesh"
    /\ hostLink[p] = "none"
    /\ hostLink' = [hostLink EXCEPT ![p] = "open"]
    /\ UNCHANGED <<peerGame, peerHand, peerLink, toPeer, toHost, trickTimeout>>
    /\ UNCHANGED myPlayerId
    /\ MeshFrame

\* setupDataConnection in the host, conn.on('close'): the connection leaves
\* the map and player_left goes to the others; nothing more crosses the
\* closed connection
meshConnectionClose(p) ==
    /\ variant = "mesh"
    /\ hostLink[p] = "open"
    /\ LET links == [hostLink EXCEPT ![p] = "closed"]
           left == [type |-> "player_left", from |-> Host, data |-> [playerId |-> p]]
       IN  /\ hostLink' = links
           /\ toPeer' = [meshSend(toPeer, meshBroadcast(links, left)) EXCEPT ![p] = <<>>]
    /\ peerLink' = [peerLink EXCEPT ![p] = "closed"]
    /\ toHost' = [toHost EXCEPT ![p] = <<>>]
    /\ UNCHANGED <<peerGame, peerHand, trickTimeout>>
    /\ UNCHANGED myPlayerId
    /\ MeshFrame

\* the host takes a new state and broadcasts it
meshPublish(gs) ==
    /\ peerGame' = [peerGame EXCEPT ![Host] = gs]
    /\ toPeer' = meshSend(toPeer, meshBroadcast(hostLink, meshGameStateMessage(gs)))

\* handleMessage in the host, for the next message of a connection
meshHostMessage(p) ==
    /\ variant = "mesh"
    /\ hostLink[p] = "open"
    /\ toHost[p] # <<>>
    /\ toHost' = [toHost EXCEPT ![p] = Tail(@)]
    /\ LET message == Head(toHost[p])
           gs == peerGame[Host]
       IN  IF message.type = "player_joined"
           THEN LET playerExists == \E i \in DOMAIN gs.players :
                                       gs.players[i].id = message.data.playerId
                    position == Len(gs.players)
                    newGameState == [gs EXCEPT !.players = Append(@,
                        [id |-> message.data.playerId, position |-> position,
                         team |-> position % 2, cardCount |-> 0])]
                IN  /\ IF ~playerExists /\ Len(gs.players) < 4
                       THEN meshPublish(newGameState)
                       ELSE UNCHANGED <<peerGame, toPeer>>
                    /\ UNCHANGED trickTimeout
           ELSE IF message.type = "sync_request"
           THEN LET answer == IF gs = Null THEN <<>>
                              ELSE meshSendMessage(myPlayerId[Host], hostLink[p] = "open",
                                                   meshGameStateMessage(gs))
                IN  /\ toPeer' = meshSend(toPeer,
                          [i \in DOMAIN answer |-> [to |-> p, message |-> answer[i]]])
                    /\ UNCHANGED <<peerGame, trickTimeout>>
           ELSE LET done == meshHandlePlayerAction(gs, message.data)
                IN  /\ IF done.taken
                       THEN meshPublish(done.state)
                       ELSE UNCHANGED <<peerGame, toPeer>>
                    /\ trickTimeout' = (trickTimeout \/ done.timer)
    /\ UNCHANGED <<peerHand, hostLink, peerLink>>
    /\ UNCHANGED myPlayerId
    /\ MeshFrame

\* handleMessage in a peer, for the next message of the host
meshPeerMessage(p) ==
    /\ variant = "mesh"
    /\ peerLink[p] = "open"
    /\ toPeer[p] # <<>>
    /\ toPeer' = [toPeer EXCEPT ![p] = Tail(@)]
    /\ LET message == Head(toPeer[p])
       IN  IF message.type = "game_state"
           THEN /\ peerGame' = [peerGame EXCEPT ![p] = message.data]
                /\ UNCHANGED peerHand
           ELSE IF message.type = "player_action"
                   /\ message.data.type = "receive_hand"
                   /\ message.data.playerId = p
           THEN /\ peerHand' = [peerHand EXCEPT ![p] = message.data.cards]
                /\ UNCHANGED peerGame
           ELSE UNCHANGED <<peerGame, peerHand>>
    /\ UNCHANGED <<hostLink, peerLink, toHost, trickTimeout>>
    /\ UNCHANGED myPlayerId
    /\ MeshFrame

\* startGame in the host
meshStartGame(deck) ==
    /\ variant = "mesh"
    /\ peerGame[Host] # Null
    /\ Len(peerGame[Host].players) >= 4
    /\ LET gs == peerGame[Host]
           hands == meshDeal(deck)
           updatedPlayers == [i \in DOMAIN gs.players |->
                                 [gs.players[i] EXCEPT !.cardCount = 10]]
           newGameState == [gs EXCEPT
               !.phase = "playing",
               !.trumpSuit = deck[Len(deck)].suit,
               !.currentPlayerIndex = 0,
               !.currentTrick = <<>>,
               !.currentTrickWinner = NoPosition,
               !.players = updatedPlayers]
           mine == FindIndex(updatedPlayers, LAMBDA pl : pl.id = Host)
       IN  /\ peerHand' = IF mine = 0 THEN peerHand
                          ELSE [peerHand EXCEPT
                                   ![Host] = hands[updatedPlayers[mine].position + 1]]
           /\ peerGame' = [peerGame EXCEPT ![Host] = newGameState]
           /\ toPeer' = meshSend(toPeer,
                  meshBroadcast(hostLink, meshGameStateMessage(newGameState))
                  \o meshHandMessages(hostLink, updatedPlayers, hands))
    /\ UNCHANGED <<hostLink, peerLink, toHost, trickTimeout>>
    /\ UNCHANGED myPlayerId
    /\ MeshFrame

\* the checks of playCard on the participant's own copy of the state
meshCanPlay(p, card) ==
    /\ peerGame[p] # Null
    /\ peerGame[p].players[peerGame[p].currentPlayerIndex + 1].id = p
    /\ peerGame[p].currentTrick # <<>> =>
          \E c \in Range(getValidCards(peerHand[p], peerGame[p].currentTrick,
                                       peerGame[p].trumpSuit)) :
              c.suit = card.suit /\ c.number = card.number

meshWithoutCard(hand, card) ==
    Filter(hand, LAMBDA c : c.suit # card.suit \/ c.number # card.number)

\* playCard in the host: the card leaves the hand and the action is handled
meshHostPlayCard(card) ==
    /\ variant = "mesh"
    /\ meshCanPlay(Host, card)
    /\ peerHand' = [peerHand EXCEPT ![Host] = meshWithoutCard(@, card)]
    /\ LET done == meshHandlePlayerAction(peerGame[Host],
                       [type |-> "play_card", playerId |-> Host, card |-> card])
       IN  /\ IF done.taken
              THEN meshPublish(done.state)
              ELSE UNCHANGED <<peerGame, toPeer>>
           /\ trickTimeout' = (trickTimeout \/ done.timer)
    /\ UNCHANGED <<hostLink, peerLink, toHost>>
    /\ UNCHANGED myPlayerId
    /\ MeshFrame

\* playCard in a peer: the card leaves the hand and the action goes to the
\* host if the connection is open
meshPeerPlayCard(p, card) ==
    /\ variant = "mesh"
    /\ meshCanPlay(p, card)
    /\ peerHand' = [peerHand EXCEPT ![p] = meshWithoutCard(@, card)]
    /\ toHost' = IF peerLink[p] = "open"
                 THEN [toHost EXCEPT ![p] = Append(@,
                          [type |-> "player_action", from |-> p,
                           data |-> [type |-> "play_card", playerId |-> p, card |-> card]])]
                 ELSE toHost
    /\ UNCHANGED <<peerGame, hostLink, peerLink, toPeer, trickTimeout>>
    /\ UNCHANGED myPlayerId
    /\ MeshFrame

\* the 2000 ms timer of the host fires
meshTrickTimeout ==
    /\ variant = "mesh"
    /\ trickTimeout
    /\ trickTimeout' = FALSE
    /\ LET done == meshResolveTrick(peerGame[Host])
       IN  IF done.taken
           THEN meshPublish(done.state)
           ELSE UNCHANGED <<peerGame, toPeer>>
    /\ UNCHANGED <<peerHand, hostLink, peerLink, toHost>>
    /\ UNCHANGED myPlayerId
    /\ MeshFrame

(***************************************************************************)
(* The peer mesh and its participants.  What they do at the screen and     *)
(* when the connections deliver is the environment.                        *)
(***************************************************************************)
MaxLag == 0          \* the host takes a step while every peer has at most
                     \* MaxLag of its messages still to handle
MaxUnanswered == 1   \* plays a peer has sent that the host has not handled
MaxStalePlays == 1   \* cards that left a hand without the host counting them
LooseTricks == 2     \* in the first LooseTricks tricks a participant also plays
                     \* on a copy of the state that is not the host's state,
                     \* and onto a trick that already holds four cards
MeshDropPeers == {NumPeers + 1}   \* the peers whose connection closes

MeshSettled == \A p \in Peers : Len(toPeer[p]) <= MaxLag

\* the cards a participant clicks: any card of a hand of at most FreeTricks
\* cards, and before that the first card its copy of the state allows
MeshPlayInputs(p) ==
    LET hand == peerHand[p]
        gs == peerGame[p]
        valid == getValidCards(hand, gs.currentTrick, gs.trumpSuit)
    IN  IF gs = Null \/ hand = <<>> THEN {}
        ELSE IF Len(hand) <= FreeTricks THEN Range(hand)
        ELSE {valid[1]}

StalePlays ==
    IF peerGame[Host] = Null THEN 0
    ELSE SeqSum([i \in DOMAIN peerGame[Host].players |->
            IF peerGame[Host].players[i].cardCount > Len(peerHand[peerGame[Host].players[i].id])
            THEN peerGame[Host].players[i].cardCount
                    - Len(peerHand[peerGame[Host].players[i].id])
            ELSE 0])

\* the participant plays in step: on the host's state, onto an open trick
InStep(p) ==
    /\ peerGame[p] = peerGame[Host]
    /\ Len(peerGame[p].currentTrick) < 4

\* when a participant plays out of step
PlaysLoose ==
    /\ StalePlays < MaxStalePlays
    /\ \A i \in DOMAIN peerGame[Host].players :
          peerGame[Host].players[i].cardCount >= 10 - LooseTricks

InitMesh ==
    /\ variant = "mesh"
    /\ RelayIdle
    /\ RulesIdle
    /\ MeshIdle
    /\ LocalIdle

MeshCreateRoom == meshCreateRoom

\* the peers join in the order of their numbers, once the room exists
MeshJoinRoom == \E p \in Peers :
    /\ peerGame[Host] # Null
    /\ \A q \in Peers : q < p => peerLink[q] # "none"
    /\ meshJoinRoom(p)

MeshConnectionOpen == \E p \in Peers :
    /\ peerLink[p] = "open"
    /\ meshConnectionOpen(p)

\* a connection closes while no seat has played a card of its hand
MeshConnectionClose == \E p \in MeshDropPeers :
    /\ peerGame[Host] # Null
    /\ \A i \in DOMAIN peerGame[Host].players :
          peerGame[Host].players[i].cardCount \in {0, 10}
    /\ meshConnectionClose(p)

MeshHostMessage == \E p \in Peers :
    /\ MeshSettled
    /\ meshHostMessage(p)

MeshPeerMessage == \E p \in Peers : meshPeerMessage(p)

\* the host starts the game from the lobby
MeshStartGame ==
    /\ MeshSettled
    /\ peerGame[Host] # Null
    /\ peerGame[Host].phase = "waiting"
    /\ \E deck \in ShuffledDecks : meshStartGame(deck)

MeshHostPlayCard ==
    /\ MeshSettled
    /\ peerGame[Host] # Null
    /\ InStep(Host) \/ PlaysLoose
    /\ \E card \in MeshPlayInputs(Host) : meshHostPlayCard(card)

MeshPeerPlayCard == \E p \in Peers :
    /\ Len(toHost[p]) < MaxUnanswered
    /\ peerGame[p] # Null
    /\ InStep(p) \/ PlaysLoose
    /\ \E card \in MeshPlayInputs(p) : meshPeerPlayCard(p, card)

MeshTrickTimeout ==
    /\ MeshSettled
    /\ meshTrickTimeout

NextMesh ==
    \/ MeshCreateRoom
    \/ MeshJoinRoom
    \/ MeshConnectionOpen
    \/ MeshConnectionClose
    \/ MeshHostMessage
    \/ MeshPeerMessage
    \/ MeshStartGame
    \/ MeshHostPlayCard
    \/ MeshPeerPlayCard
    \/ MeshTrickTimeout

SpecMesh == InitMesh /\ [][NextMesh]_vars

\* the two networked variants
SpecOnline == (InitRelay \/ InitMesh) /\ [][NextRelay \/ NextMesh]_vars

(***************************************************************************)
(* hooks/useAIGame: the local simulation.  Seat 0 is the human, seats 1 to *)
(* 3 are played by aiSelectCard.  The hook acts in callbacks of setTimeout *)
(* (500 ms from the effect to processAITurn, 800 ms to the card of an AI,  *)
(* 1000 ms from a declaration of an AI to its card, 2000 ms to the         *)
(* resolution of a trick); a callback works with the state of the render   *)
(* that created it, and the functional updates of setGameState with the    *)
(* state of the moment they run.  Time is counted in units of 100 ms.      *)
(* Player names, myPosition, myHand (always the hand of seat 0) and        *)
(* leadPlayerPosition (written, never read) are left out.                  *)
(***************************************************************************)
EFFECT_DELAY == 5
AI_DELAY == 8
AI_CANTE_DELAY == 10
TRICK_DELAY == 20
GAMES_TO_WIN == 3
NoSeat == -1          \* lastTrickWinner, currentTrickWinner: null
NoTeam == 0           \* gameWinner: null

\* startGame: the players of the simulation, in the order of their seats
LocalPlayerIds == <<"human", "ai1", "ai2", "ai3">>

localDeal(deck) ==
    [i \in 1..4 |->
        [id |-> LocalPlayerIds[i],
         position |-> i - 1,
         team |-> IF (i - 1) % 2 = 0 THEN 1 ELSE 2,
         hand |-> SubSeq(deck, (i - 1) * 10 + 1, i * 10),
         isAI |-> i # 1]]

localStartGame(deck, difficulty) ==
    [phase |-> "playing",
     players |-> localDeal(deck),
     trumpCard |-> deck[Len(deck)],
     trumpSuit |-> deck[Len(deck)].suit,
     currentPlayerPosition |-> 0,
     currentTrick |-> <<>>,
     currentTrickWinner |-> NoSeat,
     trickHistory |-> <<>>,
     canteHistory |-> <<>>,
     scores |-> [t \in {1, 2} |-> [points |-> 0, games |-> 0]],
     roundNumber |-> 1,
     lastTrickWinner |-> NoSeat,
     gameWinner |-> NoTeam,
     lastCante |-> Null,
     cantedSuits |-> <<>>,
     difficulty |-> difficulty]

\* getAvailableCantes: the king-knight pairs of the hand in suits not yet
\* declared, in the order of SUITS
getAvailableCantes(hand, trumpSuit, cantedSuits) ==
    LET open == Filter(SUITS, LAMBDA suit :
            /\ suit \notin Range(cantedSuits)
            /\ \E i \in DOMAIN hand : hand[i].suit = suit /\ hand[i].number = 12
            /\ \E i \in DOMAIN hand : hand[i].suit = suit /\ hand[i].number = 11)
    IN  [i \in DOMAIN open |->
            [suit |-> open[i], points |-> IF open[i] = trumpSuit THEN 40 ELSE 20]]

\* cantes.sort((a, b) => b.points - a.points)[0]: the first of the highest
bestCante(cantes) ==
    cantes[CHOOSE i \in DOMAIN cantes :
              /\ \A j \in DOMAIN cantes : cantes[j].points <= cantes[i].points
              /\ \A j \in 1..(i - 1) : cantes[j].points < cantes[i].points]

\* [...validCards].sort(by strength, descending): a stable sort, so cards of
\* equal strength keep the order of the hand
aiSortedAt(validCards, trumpSuit, leadSuit, k) ==
    CHOOSE i \in DOMAIN validCards :
        k = 1 + Cardinality({j \in DOMAIN validCards :
                \/ aiGetCardStrength(validCards[j], trumpSuit, leadSuit)
                     > aiGetCardStrength(validCards[i], trumpSuit, leadSuit)
                \/ /\ aiGetCardStrength(validCards[j], trumpSuit, leadSuit)
                        = aiGetCardStrength(validCards[i], trumpSuit, leadSuit)
                   /\ j < i})

aiSorted(validCards, trumpSuit, leadSuit) ==
    [k \in DOMAIN validCards |-> validCards[aiSortedAt(validCards, trumpSuit, leadSuit, k)]]

\* array[index] of JavaScript, 0-based: undefined outside the array
At(array, index) == IF index + 1 \in DOMAIN array THEN array[index + 1] ELSE Null

\* [...array].sort((a, b) => keys(a) - keys(b)): a stable sort, ascending by
\* the key keys[i] of array[i]
SortByKeys(array, keys) ==
    [k \in DOMAIN array |->
        array[CHOOSE i \in DOMAIN array :
                 k = 1 + Cardinality({j \in DOMAIN array :
                        keys[j] < keys[i] \/ (keys[j] = keys[i] /\ j < i)})]]

\* Math.random() is drawn as a multiple of 1/RandomSteps
RandomSteps == 4

\* Math.floor(Math.random() * length) for the draw r / RandomSteps
RandomIndex(r, length) == (r * length) \div RandomSteps

\* analyzePlayedCards, suitVoids: per position the lead suits of the tricks
\* (the history and the current trick) in which it played neither the lead
\* suit nor the suit of the trump card
aiSuitVoids(trickHistory, currentTrick, trumpCard) ==
    LET tricks == [i \in DOMAIN trickHistory |-> trickHistory[i].cards]
                    \o (IF Len(currentTrick) > 0 THEN <<currentTrick>> ELSE <<>>)
        trumpCardSuit == IF trumpCard = Null THEN NoSuit ELSE trumpCard.suit
    IN  [position \in 0..3 |->
            {tricks[t][1].card.suit : t \in
                {u \in DOMAIN tricks : \E k \in DOMAIN tricks[u] :
                    /\ tricks[u][k].position = position
                    /\ tricks[u][k].card.suit # tricks[u][1].card.suit
                    /\ tricks[u][k].card.suit # trumpCardSuit}}]

\* analyzePlayedCards, playedCards: the ids of the cards of the history, of
\* the current trick and of the own hand
aiPlayedCards(trickHistory, currentTrick, myHand) ==
    UNION {{trickHistory[t].cards[k].card.id : k \in DOMAIN trickHistory[t].cards} :
              t \in DOMAIN trickHistory}
      \cup {currentTrick[k].card.id : k \in DOMAIN currentTrick}
      \cup {myHand[k].id : k \in DOMAIN myHand}

\* calculateWinProbability, in hundredths
calculateWinProbability(card, currentTrick, trumpSuit, playedCards, myPosition) ==
    IF Len(currentTrick) = 0 THEN 50
    ELSE
    LET leadSuit == currentTrick[1].card.suit
        tempWinner == aiDetermineTrickWinner(
            Append(currentTrick, [playerId |-> "temp", card |-> card, position |-> myPosition]),
            trumpSuit).winner
        remainingPlayers == 4 - Len(currentTrick) - 1
        cardStrength == aiGetCardStrength(card, trumpSuit, leadSuit)
        superiorOf(suit) == Cardinality({num \in Range(CARD_NUMBERS) :
            /\ <<suit, num>> \notin playedCards
            /\ aiGetCardStrength([suit |-> suit, number |-> num], trumpSuit, leadSuit)
                  > cardStrength})
        superiorCardsRemaining ==
            superiorOf(leadSuit)
              + (IF trumpSuit # NoSuit /\ card.suit = trumpSuit THEN superiorOf(trumpSuit) ELSE 0)
        probability == IF 100 - superiorCardsRemaining * 15 > 30
                       THEN 100 - superiorCardsRemaining * 15 ELSE 30
    IN  IF tempWinner.position = myPosition
        THEN (IF remainingPlayers = 0 THEN 100 ELSE probability)
        ELSE 10

\* the comparator of winningCards.sort: the higher probability first when the
\* probabilities differ by more than 0.2, else the lower value first
aiBefore(a, b) ==
    LET probDiff == b.probability - a.probability
    IN  IF probDiff > 20 \/ probDiff < -20 THEN probDiff < 0
        ELSE a.card.value < b.card.value

\* winningCards.sort(comparator): an insertion sort, each element placed
\* behind the last one it does not come before
RECURSIVE aiSortWinning(_)
aiSortWinning(cards) ==
    IF Len(cards) <= 1 THEN cards
    ELSE LET front == aiSortWinning(SubSeq(cards, 1, Len(cards) - 1))
             last == cards[Len(cards)]
             after == {k \in DOMAIN front : ~aiBefore(last, front[k])}
             at == IF after = {} THEN 0 ELSE CHOOSE k \in after : \A m \in after : m <= k
         IN  SubSeq(front, 1, at) \o <<last>> \o SubSeq(front, at + 1, Len(front))

\* the partner has played into the trick and is winning it
aiPartnerWins(currentTrick, trumpSuit, partnerPosition) ==
    /\ Len(currentTrick) >= 2
    /\ partnerPosition # NoPosition
    /\ \E k \in DOMAIN currentTrick : currentTrick[k].position = partnerPosition
    /\ aiDetermineTrickWinner(currentTrick, trumpSuit).winner.position = partnerPosition

\* the weakest card of `sorted` (strongest first) that beats the trick,
\* undefined (Null) if none does
aiLowestWinning(sorted, currentTrick, trumpSuit) ==
    LET leadSuit == currentTrick[1].card.suit
        currentWinStrength == aiGetCardStrength(
            aiDetermineTrickWinner(currentTrick, trumpSuit).winner.card, trumpSuit, leadSuit)
        winning == {i \in DOMAIN sorted :
            aiGetCardStrength(sorted[i], trumpSuit, leadSuit) > currentWinStrength}
    IN  IF winning = {} THEN Null
        ELSE sorted[CHOOSE i \in winning : \A j \in winning : j <= i]

\* aiSelectCard, the branch of the difficulty 'expert'
aiSelectExpert(validCards, currentTrick, trumpSuit, partnerPosition, trickHistory, myPosition, trumpCard, hand) ==
    LET suitVoids == aiSuitVoids(trickHistory, currentTrick, trumpCard)
        playedCards == aiPlayedCards(trickHistory, currentTrick, hand)
        sorted == SortByKeys(validCards, [i \in DOMAIN validCards |-> 0 - validCards[i].value])
        strongCards == Filter(sorted, LAMBDA c : aiGetCardStrength(c, trumpSuit, NoSuit) >= 12)
        forcing == {k \in DOMAIN strongCards :
            \E position \in 0..3 :
                /\ position # myPosition
                /\ position # partnerPosition
                /\ strongCards[k].suit \in suitVoids[position]}
        noPointCards == Filter(sorted, LAMBDA c : c.value = 0)
        leadSuit == currentTrick[1].card.suit
        byStrength == SortByKeys(validCards,
            [i \in DOMAIN validCards |-> aiGetCardStrength(validCards[i], trumpSuit, leadSuit)])
        withPoints == Filter(byStrength, LAMBDA c : c.value > 0)
        cardsWithProb == [i \in DOMAIN validCards |->
            [card |-> validCards[i],
             probability |-> calculateWinProbability(validCards[i], currentTrick, trumpSuit,
                                                     playedCards, myPosition)]]
        winningCards == aiSortWinning(Filter(cardsWithProb, LAMBDA c : c.probability > 50))
        sortedByValue == SortByKeys(validCards, [i \in DOMAIN validCards |-> validCards[i].value])
    IN  IF Len(currentTrick) = 0 THEN
            IF forcing # {} THEN strongCards[CHOOSE k \in forcing : \A m \in forcing : k <= m]
            ELSE IF Len(noPointCards) > 0 THEN At(noPointCards, Len(noPointCards) \div 2)
            ELSE At(sorted, Len(sorted) \div 3)
        ELSE IF aiPartnerWins(currentTrick, trumpSuit, partnerPosition) THEN
            IF Len(withPoints) > 0 THEN At(withPoints, 0) ELSE At(byStrength, 0)
        ELSE IF Len(winningCards) > 0 THEN winningCards[1].card
        ELSE At(sortedByValue, 0)

\* aiSelectCard, the strategy of 'hard' once the trick has a card; 'easy'
\* falls through to it in 30% of its calls
aiSelectHard(validCards, currentTrick, trumpSuit, partnerPosition) ==
    LET leadSuit == currentTrick[1].card.suit
        sorted == aiSorted(validCards, trumpSuit, leadSuit)
        withPoints == Filter(sorted, LAMBDA c : c.value > 0)
        beating == aiLowestWinning(sorted, currentTrick, trumpSuit)
        sortedByValue == SortByKeys(sorted, [i \in DOMAIN sorted |-> sorted[i].value])
    IN  IF aiPartnerWins(currentTrick, trumpSuit, partnerPosition) THEN
            IF Len(withPoints) > 0 THEN At(withPoints, Len(withPoints) - 1)
            ELSE At(sorted, Len(sorted) - 1)
        ELSE IF beating # Null THEN beating
        ELSE At(sortedByValue, 0)

\* a selection that takes the first card of the hand
aiSelectCardFirstOfHand(hand, currentTrick, trumpSuit, partnerPosition, difficulty, trickHistory, myPosition, trumpCard, random) ==
    hand[1]

\* aiSelectCard.  `random` holds the values Math.random() returns to the
\* call, in order and in steps of 1/RandomSteps.  'medium', the default of
\* startGame, leads its middle card and otherwise plays the weakest card that
\* beats the trick, else the weakest card.
aiSelectCard(hand, currentTrick, trumpSuit, partnerPosition, difficulty, trickHistory, myPosition, trumpCard, random) ==
    LET validCards == aiGetValidCards(hand, currentTrick, trumpSuit)
        byValueDesc == SortByKeys(validCards, [i \in DOMAIN validCards |-> 0 - validCards[i].value])
        noPointCards == Filter(byValueDesc, LAMBDA c : c.value = 0)
        sorted == aiSorted(validCards, trumpSuit, currentTrick[1].card.suit)
        beating == aiLowestWinning(sorted, currentTrick, trumpSuit)
    IN  IF Len(validCards) = 1 THEN validCards[1]
        ELSE IF difficulty = "expert"
        THEN aiSelectExpert(validCards, currentTrick, trumpSuit, partnerPosition,
                            trickHistory, myPosition, trumpCard, hand)
        ELSE IF difficulty = "easy" /\ 10 * random[1] < 7 * RandomSteps
        THEN At(validCards, RandomIndex(random[2], Len(validCards)))
        ELSE IF Len(currentTrick) = 0 THEN
            IF difficulty = "easy" THEN At(validCards, RandomIndex(random[2], Len(validCards)))
            ELSE IF difficulty = "medium" THEN At(validCards, Len(validCards) \div 2)
            ELSE IF Len(noPointCards) > 0 THEN At(noPointCards, Len(noPointCards) \div 2)
            ELSE At(byValueDesc, Len(byValueDesc) \div 3)
        ELSE IF difficulty = "medium" THEN
            IF beating # Null THEN beating ELSE At(sorted, Len(sorted) - 1)
        ELSE aiSelectHard(validCards, currentTrick, trumpSuit, partnerPosition)

\* the call of processAITurn: the partner sits opposite; the simulation is
\* started with the default difficulty, which does not read Math.random
aiTurnCard(player, snap) ==
    aiSelectCard(player.hand, snap.currentTrick, snap.trumpSuit,
                 (player.position + 2) % 4, snap.difficulty, snap.trickHistory,
                 player.position, snap.trumpCard, <<0, 0>>)

\* resolveTrick, the scores it computes: the trick's points for the winner's
\* team, and when all cards are played 10 more and a game for the team with
\* more points.  The code adds the game to newScores[team]; for the team that
\* did not win the last trick that object is still the one of the previous
\* state, which an updater run once replaces as a whole.
localNewScores(prev) ==
    LET won == aiDetermineTrickWinner(prev.currentTrick, prev.trumpSuit)
        wi == FindIndex(prev.players, LAMBDA p : p.position = won.winner.position)
        winningTeam == prev.players[wi].team
        allCardsPlayed == \A i \in DOMAIN prev.players : Len(prev.players[i].hand) = 0
        points == [t \in {1, 2} |->
            prev.scores[t].points
              + (IF t = winningTeam THEN won.points ELSE 0)
              + (IF t = winningTeam /\ allCardsPlayed THEN LAST_TRICK_BONUS ELSE 0)]
        games == [t \in {1, 2} |->
            prev.scores[t].games
              + (IF allCardsPlayed /\ points[t] > points[3 - t] THEN 1 ELSE 0)]
    IN  [t \in {1, 2} |-> [points |-> points[t], games |-> games[t]]]

\* the updater of resolveTrick
localResolveTrick(prev, deck) ==
    IF prev = Null THEN prev
    ELSE IF Len(prev.currentTrick) # 4 THEN prev
    ELSE
    LET won == aiDetermineTrickWinner(prev.currentTrick, prev.trumpSuit)
        newScores == localNewScores(prev)
        newTrickHistory == Append(prev.trickHistory,
            [cards |-> prev.currentTrick, winner |-> won.winner.position,
             points |-> won.points])
        allCardsPlayed == \A i \in DOMAIN prev.players : Len(prev.players[i].hand) = 0
        gameWinner == IF newScores[1].games >= GAMES_TO_WIN
                         /\ newScores[1].points > newScores[2].points THEN 1
                      ELSE IF newScores[2].games >= GAMES_TO_WIN
                         /\ newScores[2].points > newScores[1].points THEN 2
                      ELSE NoTeam
    IN  IF allCardsPlayed /\ gameWinner # NoTeam
        THEN [prev EXCEPT
                !.currentTrick = <<>>,
                !.currentTrickWinner = NoSeat,
                !.trickHistory = newTrickHistory,
                !.scores = newScores,
                !.phase = "finished",
                !.gameWinner = gameWinner,
                !.lastTrickWinner = won.winner.position]
        ELSE IF allCardsPlayed
        THEN [prev EXCEPT
                !.players = [i \in DOMAIN prev.players |->
                    [prev.players[i] EXCEPT !.hand = SubSeq(deck, (i - 1) * 10 + 1, i * 10)]],
                !.trumpCard = deck[Len(deck)],
                !.trumpSuit = deck[Len(deck)].suit,
                !.currentTrick = <<>>,
                !.currentTrickWinner = NoSeat,
                !.trickHistory = <<>>,
                !.canteHistory = <<>>,
                !.currentPlayerPosition = won.winner.position,
                !.scores = [t \in {1, 2} |-> [newScores[t] EXCEPT !.points = 0]],
                !.roundNumber = prev.roundNumber + 1,
                !.lastTrickWinner = won.winner.position,
                !.lastCante = Null,
                !.cantedSuits = <<>>]
        ELSE [prev EXCEPT
                !.currentTrick = <<>>,
                !.currentTrickWinner = NoSeat,
                !.trickHistory = newTrickHistory,
                !.currentPlayerPosition = won.winner.position,
                !.scores = newScores,
                !.lastTrickWinner = won.winner.position,
                !.lastCante = Null]

\* the updater of playCardInternal
localPlayCardInternal(prev, playerId, cardId) ==
    LET playerIndex == IF prev = Null THEN 0
                       ELSE FindIndex(prev.players, LAMBDA p : p.id = playerId)
        cardIndex == IF playerIndex = 0 THEN 0
                     ELSE FindIndex(prev.players[playerIndex].hand, LAMBDA c : c.id = cardId)
        player == prev.players[playerIndex]
        newTrick == Append(prev.currentTrick,
            [playerId |-> playerId, card |-> player.hand[cardIndex],
             position |-> player.position])
        newPlayers == [prev.players EXCEPT ![playerIndex].hand = RemoveAt(@, cardIndex)]
    IN  IF cardIndex = 0 THEN prev
        ELSE IF Len(newTrick) = 4
        THEN [prev EXCEPT
                !.players = newPlayers,
                !.currentTrick = newTrick,
                !.currentTrickWinner =
                    aiDetermineTrickWinner(newTrick, prev.trumpSuit).winner.position]
        ELSE [prev EXCEPT
                !.players = newPlayers,
                !.currentTrick = newTrick,
                !.currentPlayerPosition = (prev.currentPlayerPosition + 1) % 4]

\* the updater of a declaration: the points go to the team at once
localCante(prev, playerId, team, cante) ==
    IF prev = Null THEN prev
    ELSE [prev EXCEPT
            !.scores[team].points = @ + cante.points,
            !.lastCante = [playerId |-> playerId, suit |-> cante.suit, points |-> cante.points],
            !.canteHistory = Append(@,
                [playerId |-> playerId, suit |-> cante.suit, points |-> cante.points]),
            !.cantedSuits = Append(@, cante.suit)]

LocalFrame == UNCHANGED <<variant, relayVars, rulesVars, meshVars>>

\* a callback handed to setTimeout: what it does, the time until it runs and
\* the game state it closed over; run is the number of games exited when it
\* was scheduled
Timer(kind, due, snap) == [kind |-> kind, due |-> due, snap |-> snap, run |-> exits]

\* the time to the next callback, 0 when none is pending
NextDue == IF aiTimers = {} THEN 0
           ELSE CHOOSE d \in {t.due : t \in aiTimers} : \A t \in aiTimers : d <= t.due

\* the pending callbacks after d units of time
Elapse(timers, d) == {[t EXCEPT !.due = @ - d] : t \in timers}

\* the effect on [currentPlayerPosition, currentTrick.length,
\* pendingTrickResolution, processAITurn]: when the step changed the game
\* state or the flag, the cleanup clears the effect's timer and the effect
\* sets a new one if it is the turn of an AI and no resolution is pending
EffectRuns(timers, game, pending) ==
    IF game = aiGame /\ pending = pendingTrickResolution THEN timers
    ELSE {t \in timers : t.kind # "effect"}
         \cup (IF /\ game # Null
                  /\ game.phase = "playing"
                  /\ game.currentPlayerPosition # 0
                  /\ ~pending
               THEN {Timer("effect", EFFECT_DELAY, Null)} ELSE {})

\* playCardInternal: the update, and for the fourth card of a trick the flag
\* and the timer of the resolution, which replaces one still pending
LocalPlays(timers, playerId, cardId, processing, event) ==
    LET game == localPlayCardInternal(aiGame, playerId, cardId)
        complete == game # aiGame /\ Len(game.currentTrick) = 4
        pending == pendingTrickResolution \/ complete
        kept == IF complete
                THEN {t \in timers : t.kind # "resolve"}
                        \cup {Timer("resolve", TRICK_DELAY, Null)}
                ELSE timers
    IN  /\ aiGame' = game
        /\ pendingTrickResolution' = pending
        /\ isProcessing' = processing
        /\ aiTimers' = EffectRuns(kept, game, pending)
        /\ aiEvent' = [type |-> event, playerId |-> playerId, cardId |-> cardId,
                       played |-> game # aiGame]

\* startGame(playerName, difficulty), d units of time after the last step
localStart(d, deck, difficulty) ==
    /\ variant = "local"
    /\ aiGame' = localStartGame(deck, difficulty)
    /\ aiTimers' = EffectRuns(Elapse(aiTimers, d), localStartGame(deck, difficulty),
                              pendingTrickResolution)
    /\ aiEvent' = [type |-> "startGame"]
    /\ UNCHANGED <<isProcessing, pendingTrickResolution>>
    /\ UNCHANGED exits
    /\ LocalFrame

\* playCard(cardId) of the human, d units of time after the last step
localPlayCard(d, cardId) ==
    /\ variant = "local"
    /\ aiGame # Null
    /\ aiGame.currentPlayerPosition = 0
    /\ ~isProcessing
    /\ ~pendingTrickResolution
    /\ \E c \in Range(aiGetValidCards(aiGame.players[1].hand, aiGame.currentTrick,
                                      aiGame.trumpSuit)) : c.id = cardId
    /\ LocalPlays(Elapse(aiTimers, d), "human", cardId, isProcessing, "playCard")
    /\ UNCHANGED exits
    /\ LocalFrame

\* declareCante(suit) of the human, d units of time after the last step
localDeclareCante(d, suit) ==
    /\ variant = "local"
    /\ aiGame # Null
    /\ aiGame.currentPlayerPosition = 0
    /\ Len(aiGame.currentTrick) = 0
    /\ ~(aiGame.lastTrickWinner # 0 /\ Len(aiGame.trickHistory) > 0)
    /\ LET cantes == getAvailableCantes(aiGame.players[1].hand, aiGame.trumpSuit,
                                        aiGame.cantedSuits)
           ci == FindIndex(cantes, LAMBDA c : c.suit = suit)
           game == localCante(aiGame, "human", 1, cantes[ci])
       IN  /\ ci # 0
           /\ aiGame' = game
           /\ aiTimers' = EffectRuns(Elapse(aiTimers, d), game, pendingTrickResolution)
           /\ aiEvent' = [type |-> "declareCante", playerId |-> "human", suit |-> suit]
    /\ UNCHANGED <<isProcessing, pendingTrickResolution>>
    /\ UNCHANGED exits
    /\ LocalFrame

\* the callback aiTimeoutRef.current names: the 800 ms callback set last
LastAITimer(timers) ==
    {t \in timers : t.kind = "ai" /\ \A u \in timers : u.kind = "ai" => u.due <= t.due}

\* exitGame(), d units of time after the last step: it clears the timers the
\* two refs name and sets the game state to null; the flags isProcessing and
\* pendingTrickResolution keep their values
localExitGame(d) ==
    /\ variant = "local"
    /\ LET timers == Elapse(aiTimers, d)
           kept == {t \in timers : t \notin LastAITimer(timers) /\ t.kind # "resolve"}
       IN  aiTimers' = EffectRuns(kept, Null, pendingTrickResolution)
    /\ aiGame' = Null
    /\ aiEvent' = [type |-> "exitGame"]
    /\ exits' = exits + 1
    /\ UNCHANGED <<isProcessing, pendingTrickResolution>>
    /\ LocalFrame

\* the callback of the effect: processAITurn of the current render
localProcessAITurn(timer) ==
    /\ variant = "local"
    /\ timer \in aiTimers /\ timer.kind = "effect" /\ timer.due = NextDue
    /\ LET rest == Elapse(aiTimers \ {timer}, timer.due)
           ci == IF aiGame = Null THEN 0
                 ELSE FindIndex(aiGame.players,
                                LAMBDA p : p.position = aiGame.currentPlayerPosition)
           acts == /\ aiGame # Null
                   /\ aiGame.phase = "playing"
                   /\ ~pendingTrickResolution
                   /\ ci # 0
                   /\ aiGame.players[ci].isAI
                   /\ Len(aiGame.players[ci].hand) # 0
       IN  /\ isProcessing' = (isProcessing \/ acts)
           /\ aiTimers' = IF acts THEN rest \cup {Timer("ai", AI_DELAY, aiGame)} ELSE rest
           /\ aiEvent' = [type |-> "processAITurn", acts |-> acts]
    /\ UNCHANGED <<aiGame, pendingTrickResolution>>
    /\ UNCHANGED exits
    /\ LocalFrame

\* the seat whose turn it was in the state a callback closed over
SnapPlayer(snap) ==
    snap.players[FindIndex(snap.players, LAMBDA p : p.position = snap.currentPlayerPosition)]

\* the declaration the 800 ms callback makes, <<>> when it makes none
SnapCantes(snap) ==
    IF Len(snap.currentTrick) = 0 /\ snap.lastTrickWinner = SnapPlayer(snap).position
    THEN getAvailableCantes(SnapPlayer(snap).hand, snap.trumpSuit, snap.cantedSuits)
    ELSE <<>>

\* the 800 ms callback of processAITurn: the AI declares its best cante and
\* plays 1000 ms later, or plays at once
localAITimeout(timer) ==
    /\ variant = "local"
    /\ timer \in aiTimers /\ timer.kind = "ai" /\ timer.due = NextDue
    /\ LET rest == Elapse(aiTimers \ {timer}, timer.due)
           snap == timer.snap
           currentPlayer == SnapPlayer(snap)
           game == localCante(aiGame, currentPlayer.id, currentPlayer.team,
                              bestCante(SnapCantes(snap)))
       IN  IF SnapCantes(snap) # <<>>
           THEN /\ aiGame' = game
                /\ aiTimers' = EffectRuns(rest \cup {Timer("aiPlay", AI_CANTE_DELAY, snap)},
                                          game, pendingTrickResolution)
                /\ aiEvent' = [type |-> "aiCante", playerId |-> currentPlayer.id,
                               suit |-> bestCante(SnapCantes(snap)).suit]
                /\ UNCHANGED <<isProcessing, pendingTrickResolution>>
           ELSE LocalPlays(rest, currentPlayer.id,
                    aiTurnCard(currentPlayer, snap).id,
                    FALSE, "aiPlay")
    /\ UNCHANGED exits
    /\ LocalFrame

\* the 1000 ms callback after a declaration of an AI: it plays its card
localAIPlayTimeout(timer) ==
    /\ variant = "local"
    /\ timer \in aiTimers /\ timer.kind = "aiPlay" /\ timer.due = NextDue
    /\ LocalPlays(Elapse(aiTimers \ {timer}, timer.due), SnapPlayer(timer.snap).id,
          aiTurnCard(SnapPlayer(timer.snap), timer.snap).id,
          FALSE, "aiPlayAfterCante")
    /\ UNCHANGED exits
    /\ LocalFrame

\* the 2000 ms callback of playCardInternal: resolveTrick
localTrickTimeout(timer, deck) ==
    /\ variant = "local"
    /\ timer \in aiTimers /\ timer.kind = "resolve" /\ timer.due = NextDue
    /\ LET game == localResolveTrick(aiGame, deck)
           roundEnd == /\ game # aiGame
                       /\ \A i \in DOMAIN aiGame.players : Len(aiGame.players[i].hand) = 0
       IN  /\ aiGame' = game
           /\ pendingTrickResolution' = FALSE
           /\ aiTimers' = EffectRuns(Elapse(aiTimers \ {timer}, timer.due), game, FALSE)
           /\ aiEvent' = IF roundEnd
                         THEN [type |-> "roundEnd", scores |-> localNewScores(aiGame),
                               canteHistory |-> aiGame.canteHistory]
                         ELSE [type |-> "resolveTrick"]
    /\ UNCHANGED isProcessing
    /\ UNCHANGED exits
    /\ LocalFrame

(***************************************************************************)
(* The local simulation and the human at the screen.                       *)
(***************************************************************************)
MaxExits == 1         \* the calls of exitGame in a behaviour
MaxExitRound == 1
MaxLocalRounds == 3   \* the human plays and declares in the first
                      \* MaxLocalRounds rounds

\* the cards the human clicks: any legal card of a hand of at most FreeTricks
\* cards, and before that the first legal card
LocalPlayInputs ==
    LET hand == aiGame.players[1].hand
        valid == aiGetValidCards(hand, aiGame.currentTrick, aiGame.trumpSuit)
    IN  IF hand = <<>> THEN {}
        ELSE IF Len(hand) <= FreeTricks THEN {valid[i].id : i \in DOMAIN valid}
        ELSE {valid[1].id}

\* the decks shuffle can return here: deck 1, which deals all kings and
\* knights to seat 3, deck 4, which deals king and knight of bastos to the
\* human, and deck 1 cut so that the human receives the knights and the
\* kings, with which a simulated round can end in a tie
LocalDeckNumbers == {1, 4}
LocalDecks == {DeckOf(k) : k \in LocalDeckNumbers} \cup {CutDeck(DeckOf(1), 32)}

InitLocal ==
    /\ variant = "local"
    /\ RelayIdle
    /\ RulesIdle
    /\ MeshIdle
    /\ LocalIdle

LocalStartGame ==
    /\ aiGame = Null
    /\ \E d \in 0..NextDue : \E deck \in LocalDecks : localStart(d, deck, "medium")

\* the human leaves a game at most MaxExits times, in one of its first
\* MaxExitRound rounds
LocalExitGame ==
    /\ aiGame # Null
    /\ exits < MaxExits
    /\ aiGame.roundNumber <= MaxExitRound
    /\ \E d \in 0..NextDue : localExitGame(d)

LocalPlayCard ==
    /\ aiGame # Null
    /\ aiGame.roundNumber <= MaxLocalRounds
    /\ \E d \in 0..NextDue : \E cardId \in LocalPlayInputs : localPlayCard(d, cardId)

LocalDeclareCante ==
    /\ aiGame # Null
    /\ aiGame.roundNumber <= MaxLocalRounds
    /\ \E d \in 0..NextDue : \E suit \in Range(SUITS) : localDeclareCante(d, suit)

LocalProcessAITurn == \E timer \in aiTimers : localProcessAITurn(timer)

LocalAITimeout == \E timer \in aiTimers : localAITimeout(timer)

LocalAIPlayTimeout == \E timer \in aiTimers : localAIPlayTimeout(timer)

\* resolveTrick shuffles a deck when the round is over
LocalTrickTimeout == \E timer \in aiTimers :
    \E deck \in (IF /\ aiGame # Null
                    /\ \A i \in DOMAIN aiGame.players : Len(aiGame.players[i].hand) = 0
                 THEN LocalDecks ELSE {<<>>}) :
        localTrickTimeout(timer, deck)

NextLocal ==
    \/ LocalStartGame
    \/ LocalExitGame
    \/ LocalPlayCard
    \/ LocalDeclareCante
    \/ LocalProcessAITurn
    \/ LocalAITimeout
    \/ LocalAIPlayTimeout
    \/ LocalTrickTimeout

SpecLocal == InitLocal /\ [][NextLocal]_vars

\* the two variants that play rounds to their end
SpecScore == (InitRelay \/ InitLocal) /\ [][NextRelay \/ NextLocal]_vars

\* the two variants that run in the browser: the mesh host or the local
\* simulation
SpecBrowser == (InitMesh \/ InitLocal) /\ [][NextMesh \/ NextLocal]_vars

(***************************************************************************)
(* The rule engine applied to bounded inputs                               *)
(***************************************************************************)
\* the largest hand drawn as an input of a rule-engine call
MaxRuleHand == 2

\* the cards the inputs are drawn from: three suits (the fourth is only ever
\* a trump nobody holds) and the ranks ace, three and king, whose strength
\* order is the reverse of their numeric order
RuleSuits == {"oros", "copas", "espadas"}
RuleNumbers == {1, 3, 12}
RuleDeck == Filter(createDeck, LAMBDA c : c.suit \in RuleSuits /\ c.number \in RuleNumbers)

\* the hands: the sub-sequences of RuleDeck of at most MaxRuleHand cards
RuleHands ==
    {[k \in 1..Cardinality(S) |-> RuleDeck[SetToSeq(S)[k]]] :
        S \in {T \in SUBSET (1..Len(RuleDeck)) : Cardinality(T) <= MaxRuleHand}}

\* the tricks of n plays whose cards are distinct and not in the hand; the
\* k-th play is by seat k-1
RuleTricks(n, hand) ==
    LET free == Range(RuleDeck) \ Range(hand)
    IN  {[k \in 1..n |-> [card |-> f[k], playerId |-> k, position |-> k - 1]] :
            f \in {g \in [1..n -> free] : \A i, j \in 1..n : i # j => g[i] # g[j]}}

\* a call of getValidCards: a hand, a trick of 0 to 3 plays and a trump suit
IsPlayCall(call) ==
    \E h \in RuleHands : \E n \in 0..3 : \E t \in RuleTricks(n, h) : \E s \in Range(SUITS) :
        call = [kind |-> "play", hand |-> h, trick |-> t, trumpSuit |-> s]

\* a call of getTrickWinner: a complete trick and a trump suit
IsTrickCall(call) ==
    \E t \in RuleTricks(4, <<>>) : \E s \in Range(SUITS) :
        call = [kind |-> "trick", hand |-> <<>>, trick |-> t, trumpSuit |-> s]

InitRules ==
    /\ variant = "rules"
    /\ IsPlayCall(rulesIn) \/ IsTrickCall(rulesIn)
    /\ rulesOut = Null
    /\ RelayIdle
    /\ MeshIdle
    /\ LocalIdle

CallGetValidCards ==
    /\ variant = "rules"
    /\ rulesIn.kind = "play"
    /\ rulesOut' = [fn |-> "getValidCards",
                    result |-> getValidCards(rulesIn.hand, rulesIn.trick, rulesIn.trumpSuit)]
    /\ UNCHANGED <<variant, rulesIn, relayVars, meshVars, localVars>>

CallAiGetValidCards ==
    /\ variant = "rules"
    /\ rulesIn.kind = "play"
    /\ rulesOut' = [fn |-> "aiGetValidCards",
                    result |-> aiGetValidCards(rulesIn.hand, rulesIn.trick, rulesIn.trumpSuit)]
    /\ UNCHANGED <<variant, rulesIn, relayVars, meshVars, localVars>>

CallGetTrickWinner ==
    /\ variant = "rules"
    /\ rulesIn.kind = "trick"
    /\ rulesOut' = [fn |-> "getTrickWinner",
                    result |-> getTrickWinner(rulesIn.trick, rulesIn.trumpSuit)]
    /\ UNCHANGED <<variant, rulesIn, relayVars, meshVars, localVars>>

CallCalculateTrickPoints ==
    /\ variant = "rules"
    /\ rulesIn.kind = "trick"
    /\ rulesOut' = [fn |-> "calculateTrickPoints",
                    result |-> calculateTrickPoints(rulesIn.trick)]
    /\ UNCHANGED <<variant, rulesIn, relayVars, meshVars, localVars>>

NextRules ==
    \/ CallGetValidCards
    \/ CallAiGetValidCards
    \/ CallGetTrickWinner
    \/ CallCalculateTrickPoints

SpecRules == InitRules /\ [][NextRules]_vars

(***************************************************************************)
(* The deck and the declaration checks applied to bounded inputs           *)
(***************************************************************************)
\* the decks handed to dealCards: the first NumDealDecks permutations of
\* DeckOf, each cut at every position
NumDealDecks == 3

DealDecks == {CutDeck(DeckOf(k), r) : k \in 1..NumDealDecks, r \in 0..(Len(createDeck) - 1)}

\* the largest hand drawn as an input of a declaration check
MaxDeclareHand == 4

\* the cards these hands are drawn from: the knights, the kings and the aces
DeclareNumbers == {1, 11, 12}
DeclareDeck == Filter(createDeck, LAMBDA c : c.number \in DeclareNumbers)

DeclareHands ==
    {[k \in 1..Cardinality(S) |-> DeclareDeck[SetToSeq(S)[k]]] :
        S \in {T \in SUBSET (1..Len(DeclareDeck)) : Cardinality(T) <= MaxDeclareHand}}

IsDealCall(call) ==
    \E d \in DealDecks : call = [kind |-> "deal", deck |-> d]

IsDeckCall(call) == call = [kind |-> "deck"]

\* a call of canDeclare20or40 or canDeclareTute: a hand, a trump suit and the
\* two flags of the caller
IsDeclareCall(call) ==
    \E h \in DeclareHands : \E s \in Range(SUITS) : \E won, declared \in BOOLEAN :
        call = [kind |-> "declare", hand |-> h, trumpSuit |-> s,
                teamWon |-> won, teamDeclared |-> declared]

InitCards ==
    /\ variant = "cards"
    /\ IsDealCall(rulesIn) \/ IsDeckCall(rulesIn) \/ IsDeclareCall(rulesIn)
    /\ rulesOut = Null
    /\ RelayIdle
    /\ MeshIdle
    /\ LocalIdle

CallDealCards ==
    /\ variant = "cards"
    /\ rulesIn.kind = "deal"
    /\ rulesOut' = [fn |-> "dealCards", result |-> dealCards(rulesIn.deck, 4)]
    /\ UNCHANGED <<variant, rulesIn, relayVars, meshVars, localVars>>

CallCreateDeck ==
    /\ variant = "cards"
    /\ rulesIn.kind = "deck"
    /\ rulesOut' = [fn |-> "createDeck", result |-> createDeck]
    /\ UNCHANGED <<variant, rulesIn, relayVars, meshVars, localVars>>

CallCanDeclare20or40 ==
    /\ variant = "cards"
    /\ rulesIn.kind = "declare"
    /\ rulesOut' = [fn |-> "canDeclare20or40",
                    result |-> canDeclare20or40(rulesIn.hand, rulesIn.trumpSuit,
                                                rulesIn.teamWon, rulesIn.teamDeclared)]
    /\ UNCHANGED <<variant, rulesIn, relayVars, meshVars, localVars>>

CallCanDeclareTute ==
    /\ variant = "cards"
    /\ rulesIn.kind = "declare"
    /\ rulesOut' = [fn |-> "canDeclareTute",
                    result |-> canDeclareTute(rulesIn.hand, rulesIn.teamWon,
                                              rulesIn.teamDeclared)]
    /\ UNCHANGED <<variant, rulesIn, relayVars, meshVars, localVars>>

NextCards ==
    \/ CallDealCards
    \/ CallCreateDeck
    \/ CallCanDeclare20or40
    \/ CallCanDeclareTute

SpecCards == InitCards /\ [][NextCards]_vars

(***************************************************************************)
(* aiSelectCard applied to bounded inputs                                  *)
(***************************************************************************)
\* the largest hand handed to aiSelectCard
MaxAIHand == 3

AICard(suit, number) ==
    createDeck[CHOOSE i \in DOMAIN createDeck :
                  createDeck[i].suit = suit /\ createDeck[i].number = number]

\* the cards the hands are drawn from, and the cards the tricks are drawn from
AIHandCards == <<AICard("oros", 1), AICard("oros", 12), AICard("oros", 4),
                 AICard("copas", 3), AICard("copas", 7), AICard("espadas", 2)>>
AITrickCards == <<AICard("oros", 3), AICard("oros", 5), AICard("copas", 1),
                  AICard("bastos", 10)>>

\* the hands: the cards of AIHandCards at up to MaxAIHand places, in order
AIHands ==
    {[k \in 1..Cardinality(S) |-> AIHandCards[SetToSeq(S)[k]]] :
        S \in {T \in SUBSET (1..Len(AIHandCards)) : T # {} /\ Cardinality(T) <= MaxAIHand}}

\* the seat that calls: an AI seat
AIPosition == 1

\* the tricks: up to 3 different cards of AITrickCards in any order, played
\* by the seats before the caller
AITricks ==
    UNION {{[k \in 1..n |-> [playerId |-> (AIPosition + 4 - (n - k + 1)) % 4,
                             card |-> AITrickCards[order[k]],
                             position |-> (AIPosition + 4 - (n - k + 1)) % 4]] :
               order \in {o \in [1..n -> DOMAIN AITrickCards] :
                             \A a, b \in 1..n : a # b => o[a] # o[b]}} :
           n \in 0..3}

\* the histories: none, or one trick in which the seat at position 0 played
\* espadas on a lead of oros
AIHistories ==
    {<<>>,
     <<[cards |-> <<[playerId |-> 2, card |-> AICard("oros", 7), position |-> 2],
                    [playerId |-> 3, card |-> AICard("oros", 6), position |-> 3],
                    [playerId |-> 0, card |-> AICard("espadas", 4), position |-> 0],
                    [playerId |-> 1, card |-> AICard("oros", 10), position |-> 1]>>]>>}

AITrumps == Range(SUITS) \cup {NoSuit}

Difficulties == {"easy", "medium", "hard", "expert"}

IsSelectCall(call) ==
    \E hand \in AIHands : \E trick \in AITricks : \E trump \in AITrumps :
    \E history \in AIHistories :
        call = [kind |-> "select", hand |-> hand, currentTrick |-> trick,
                trumpSuit |-> trump, trickHistory |-> history]

InitAI ==
    /\ variant = "ai"
    /\ IsSelectCall(rulesIn)
    /\ rulesOut = Null
    /\ RelayIdle
    /\ MeshIdle
    /\ LocalIdle

\* the values Math.random() returns to a call: only 'easy' draws any
AIRandoms(difficulty) ==
    IF difficulty = "easy" THEN [1..2 -> 0..(RandomSteps - 1)] ELSE {<<0, 0>>}

\* the one call: the caller passes the seat opposite as the partner and the
\* trump card of the round (here the 6 of the trump suit)
CallAiSelectCard ==
    /\ variant = "ai"
    /\ rulesOut = Null
    /\ \E difficulty \in Difficulties : \E random \in AIRandoms(difficulty) :
          rulesOut' =
             [fn |-> "aiSelectCard", difficulty |-> difficulty,
              result |-> aiSelectCard(rulesIn.hand, rulesIn.currentTrick, rulesIn.trumpSuit,
                            (AIPosition + 2) % 4, difficulty, rulesIn.trickHistory, AIPosition,
                            IF rulesIn.trumpSuit = NoSuit THEN Null
                            ELSE AICard(rulesIn.trumpSuit, 6),
                            random)]
    /\ UNCHANGED <<variant, rulesIn, relayVars, meshVars, localVars>>

NextAI == CallAiSelectCard

SpecAI == InitAI /\ [][NextAI]_vars

(***************************************************************************)
(* Properties of the rule engine.                                          *)
(***************************************************************************)
\* the strength order of the game, weakest first: 2 4 5 6 7 jack knight king
\* three ace
StrengthOrder == <<2, 4, 5, 6, 7, 10, 11, 12, 3, 1>>

Rank(card) == CHOOSE r \in DOMAIN StrengthOrder : StrengthOrder[r] = card.number

ValidCardsCalled ==
    /\ rulesOut # Null
    /\ rulesOut.fn \in {"getValidCards", "aiGetValidCards"}

\* C8: for a non-empty hand, a trick of 0 to 3 cards and a trump suit,
\* getValidCards (the rule engine's and the local simulation's copy) returns at
\* least one card, and every card it returns is a card of the hand.
C8_ValidCardsNonEmptySubset ==
    (ValidCardsCalled /\ rulesIn.hand # <<>>) =>
        /\ Len(rulesOut.result) > 0
        /\ \A i \in DOMAIN rulesOut.result :
              \E j \in DOMAIN rulesIn.hand : rulesIn.hand[j] = rulesOut.result[i]

\* C8 happens: the rule engine narrowed a hand of two trumps, held without a
\* card of the lead suit, to the one trump that beats the trump in the trick
C8_Witness ==
    /\ rulesOut # Null
    /\ rulesOut.fn = "getValidCards"
    /\ Len(rulesIn.hand) = 2
    /\ Len(rulesIn.trick) = 3
    /\ \A i \in DOMAIN rulesIn.hand : rulesIn.hand[i].suit = rulesIn.trumpSuit
    /\ rulesIn.trick[1].card.suit # rulesIn.trumpSuit
    /\ \E k \in DOMAIN rulesIn.trick : rulesIn.trick[k].card.suit = rulesIn.trumpSuit
    /\ Len(rulesOut.result) = 1

\* the best card of a trick in progress: its strongest trump, or without a
\* trump its strongest card of the lead suit
BestPlay(trick, trumpSuit) ==
    LET of(suit) == {k \in DOMAIN trick : trick[k].card.suit = suit}
        cands == IF of(trumpSuit) # {} THEN of(trumpSuit) ELSE of(trick[1].card.suit)
    IN  trick[CHOOSE k \in cands : \A m \in cands : Rank(trick[m].card) <= Rank(trick[k].card)]

Beats(card, best, trumpSuit) ==
    \/ card.suit = best.suit /\ Rank(card) > Rank(best)
    \/ card.suit = trumpSuit /\ best.suit # trumpSuit

\* the four-rule policy of the legal moves, as a set of cards
LegalMovePolicy(hand, trick, trumpSuit) ==
    LET cards == Range(hand)
        leadCards == {c \in cards : c.suit = trick[1].card.suit}
        trumps == {c \in cards : c.suit = trumpSuit}
        best == BestPlay(trick, trumpSuit).card
        overtaking == {c \in leadCards : Beats(c, best, trumpSuit)}
        overtrumping == {c \in trumps : best.suit = trumpSuit /\ Rank(c) > Rank(best)}
    IN  IF trick = <<>> THEN cards
        ELSE IF leadCards # {} THEN (IF overtaking # {} THEN overtaking ELSE leadCards)
        ELSE IF trumps # {} THEN (IF overtrumping # {} THEN overtrumping ELSE trumps)
        ELSE cards

\* C9: for every hand, trick and trump suit the rule engine's getValidCards
\* returns exactly the cards of the four-rule policy: the whole hand on an
\* empty trick; with lead-suit cards in hand those that beat the current best
\* card of the trick, or all of them if none does; without lead-suit cards but
\* with trumps the trumps that beat the best trump played, or all trumps; and
\* the whole hand otherwise.
C9_ValidCardsFollowPolicy ==
    (rulesOut # Null /\ rulesOut.fn = "getValidCards") =>
        Range(rulesOut.result) = LegalMovePolicy(rulesIn.hand, rulesIn.trick, rulesIn.trumpSuit)

\* C10: for a complete trick and a trump suit, getTrickWinner returns the play
\* with the strongest trump if a trump was played and else the play with the
\* strongest card of the lead suit, which is one of the four plays; and the
\* trick's points are the sum of the values of its four cards, whatever their
\* suits.  (The function reads its arguments and a constant table only, so a
\* repeated call returns the same play.)
C10_TrickWinnerAndPoints ==
    /\ (rulesOut # Null /\ rulesOut.fn = "getTrickWinner") =>
          /\ \E k \in DOMAIN rulesIn.trick : rulesIn.trick[k] = rulesOut.result
          /\ rulesOut.result = BestPlay(rulesIn.trick, rulesIn.trumpSuit)
    /\ (rulesOut # Null /\ rulesOut.fn = "calculateTrickPoints") =>
          rulesOut.result =
              SeqSum([k \in DOMAIN rulesIn.trick |->
                  CASE rulesIn.trick[k].card.number = 1 -> 11
                    [] rulesIn.trick[k].card.number = 3 -> 10
                    [] rulesIn.trick[k].card.number = 12 -> 4
                    [] rulesIn.trick[k].card.number = 11 -> 3
                    [] rulesIn.trick[k].card.number = 10 -> 2
                    [] OTHER -> 0])

\* C10 happens: the trick goes to a trump played third although the lead suit's
\* ace was played
C10_Witness ==
    /\ rulesOut # Null
    /\ rulesOut.fn = "getTrickWinner"
    /\ rulesOut.result = rulesIn.trick[3]
    /\ rulesOut.result.card.suit = rulesIn.trumpSuit
    /\ rulesIn.trick[1].card.suit # rulesIn.trumpSuit
    /\ \E k \in DOMAIN rulesIn.trick :
          /\ rulesIn.trick[k].card.suit = rulesIn.trick[1].card.suit
          /\ rulesIn.trick[k].card.number = 1

(***************************************************************************)
(* Properties of the relay server.                                         *)
(***************************************************************************)
\* the step handled a message of the type
Handled(type) == inbox' # Null /\ inbox'.type = type

\* the id of the seat bound to the connection, NoId if none
SeatOfConn(conn) ==
    IF FindByConn(conn) = 0 THEN NoId ELSE players[FindByConn(conn)].id

\* a round is being played and the sender of the handled message has a seat
InRound == gameState # Null /\ gameState.phase = "playing"

SeatOnTurn == gameState.players[gameState.currentPlayerIndex + 1]

Rejected(conn, code) == outbox' = <<[to |-> conn, msg |-> [type |-> "ERROR", code |-> code]]>>

IsError == \E i \in DOMAIN outbox' : outbox'[i].msg.type = "ERROR"

\* the hands, the trick, the seat on turn and the scores
PlayState(gs) ==
    IF gs = Null THEN <<>>
    ELSE <<[i \in DOMAIN gs.players |-> gs.players[i].hand], gs.currentTrick,
           gs.currentPlayerIndex, gs.scores>>

\* the legal moves of the seat on turn, as a set of cards
LegalMoves(hand, trick, trumpSuit) == Range(getValidCards(hand, trick, trumpSuit))

\* C2: a PLAY_CARD from a seat that is not on turn is rejected with
\* NOT_YOUR_TURN, one from the seat on turn with a card it does not hold or a
\* card outside its legal moves is rejected with INVALID_CARD, and a rejected
\* PLAY_CARD leaves the hands, the trick, the seat on turn and the scores as
\* they were.
C2_PlayCardStep ==
    Handled("PLAY_CARD") =>
        /\ (InRound /\ SeatOfConn(inbox'.from) # NoId /\ SeatOfConn(inbox'.from) # SeatOnTurn.id)
              => Rejected(inbox'.from, "NOT_YOUR_TURN")
        /\ (InRound /\ SeatOfConn(inbox'.from) = SeatOnTurn.id
              /\ \A i \in DOMAIN SeatOnTurn.hand : SeatOnTurn.hand[i].id # inbox'.cardId)
              => Rejected(inbox'.from, "INVALID_CARD")
        /\ (InRound /\ SeatOfConn(inbox'.from) = SeatOnTurn.id
              /\ inbox'.cardId \notin
                    {c.id : c \in LegalMoves(SeatOnTurn.hand, gameState.currentTrick,
                                                        gameState.trumpSuit)})
              => Rejected(inbox'.from, "INVALID_CARD")
        /\ IsError => PlayState(gameState') = PlayState(gameState)

C2_RejectedPlayCard == [][C2_PlayCardStep]_vars

\* C2 happens: the seat on turn sent a card it holds that is not a legal move,
\* and got INVALID_CARD
C2_Witness ==
    /\ inbox # Null /\ inbox.type = "PLAY_CARD"
    /\ gameState # Null /\ gameState.phase = "playing"
    /\ outbox = <<[to |-> inbox.from, msg |-> [type |-> "ERROR", code |-> "INVALID_CARD"]]>>
    /\ \E i \in DOMAIN SeatOnTurn.hand : SeatOnTurn.hand[i].id = inbox.cardId
    /\ gameState.currentTrick # <<>>

\* the seat that played the last card of the trick in progress
LastToPlay == gameState.currentTrick[Len(gameState.currentTrick)].playerId

\* C4: after a seat's accepted PLAY_CARD that did not complete the trick, a
\* second PLAY_CARD from that seat, arriving before another seat has played, is
\* rejected with NOT_YOUR_TURN and the trick keeps the cards it held.
C4_SecondPlayStep ==
    (Handled("PLAY_CARD") /\ InRound /\ gameState.currentTrick # <<>>
        /\ SeatOfConn(inbox'.from) = LastToPlay)
    => /\ Rejected(inbox'.from, "NOT_YOUR_TURN")
       /\ gameState'.currentTrick = gameState.currentTrick

C4_SecondPlayRejected == [][C4_SecondPlayStep]_vars

\* C4 happens: the seat that played the second card of the trick sent another
\* PLAY_CARD and got NOT_YOUR_TURN
C4_Witness ==
    /\ inbox # Null /\ inbox.type = "PLAY_CARD"
    /\ gameState # Null /\ gameState.phase = "playing"
    /\ Len(gameState.currentTrick) = 2
    /\ SeatOfConn(inbox.from) = LastToPlay
    /\ outbox = <<[to |-> inbox.from, msg |-> [type |-> "ERROR", code |-> "NOT_YOUR_TURN"]]>>

\* the seat of the game bound to the connection
GameSeatOfConn(conn) == gameState.players[GamePlayerIndex(gameState, SeatOfConn(conn))]

\* the handled DECLARE_CANTE comes from a seat of the game
DeclaredBySeat ==
    /\ Handled("DECLARE_CANTE")
    /\ gameState # Null
    /\ SeatOfConn(inbox'.from) # NoId
    /\ GamePlayerIndex(gameState, SeatOfConn(inbox'.from)) # 0

TeamCantes(team) == gameState.scores[team + 1].cantes

\* the cards won by the seat's team are those of one trick
FirstTrickWonByTeam(seat) ==
    /\ Len(FlatTricks(gameState.players, seat.team)) = 4
    /\ gameState.lastTrickWinner # NoId
    /\ gameState.players[GamePlayerIndex(gameState, gameState.lastTrickWinner)].team = seat.team

\* the declaration rules: for 20/40 the seat holds king and knight of the
\* suit, its team won the preceding trick or no trick has been won yet, its team
\* has declared nothing in the round, and the type is 40 exactly for the trump
\* suit; for tute canDeclareTute holds
Eligible(seat, canteType, suit) ==
    IF canteType = "tute"
    THEN canDeclareTute(seat.hand, FirstTrickWonByTeam(seat),
                        TeamCantes(seat.team) # <<>>).canDeclare
    ELSE /\ \E i \in DOMAIN seat.hand : seat.hand[i].suit = suit /\ seat.hand[i].number = 12
         /\ \E i \in DOMAIN seat.hand : seat.hand[i].suit = suit /\ seat.hand[i].number = 11
         /\ \/ gameState.lastTrickWinner = NoId
            \/ gameState.players[GamePlayerIndex(gameState, gameState.lastTrickWinner)].team
                  = seat.team
         /\ TeamCantes(seat.team) = <<>>
         /\ (canteType = "40") <=> (suit = gameState.trumpSuit)

\* the recorded declarations, the scores and the rounds-won tallies, and the phase
DeclareState(gs) == <<gs.scores, gs.phase>>

\* C3: a DECLARE_CANTE is applied only if the declaring seat is eligible under
\* the declaration rules; an ineligible declaration leaves the recorded
\* declarations, the scores, the rounds-won tallies and the phase unchanged.
C3_DeclareStep ==
    (DeclaredBySeat
        /\ ~Eligible(GameSeatOfConn(inbox'.from), inbox'.canteType, inbox'.suit))
    => DeclareState(gameState') = DeclareState(gameState)

C3_IneligibleDeclarationIgnored == [][C3_DeclareStep]_vars

RoundsWon(gs, team) == gs.scores[team + 1].roundsWon

\* C5: an applied tute declaration ends the round at once and the declaring
\* seat's team is the round winner: its rounds-won tally grows by one and the
\* other team's does not, whatever the card points of the round.
C5_TuteStep ==
    (DeclaredBySeat /\ inbox'.canteType = "tute")
    => /\ \E i \in DOMAIN outbox' : outbox'[i].msg.type = "ROUND_END"
       /\ RoundsWon(gameState', GameSeatOfConn(inbox'.from).team)
            = RoundsWon(gameState, GameSeatOfConn(inbox'.from).team) + 1
       /\ RoundsWon(gameState', 1 - GameSeatOfConn(inbox'.from).team)
            = RoundsWon(gameState, 1 - GameSeatOfConn(inbox'.from).team)

C5_TuteWinsRound == [][C5_TuteStep]_vars

\* the cards of a round, wherever they are: hands, trick, won piles
RECURSIVE Concat(_)
Concat(seqs) == IF seqs = <<>> THEN <<>> ELSE Head(seqs) \o Concat(Tail(seqs))

CardsOfRound(gs) ==
    Concat([i \in DOMAIN gs.players |-> gs.players[i].hand])
    \o [k \in DOMAIN gs.currentTrick |-> gs.currentTrick[k].card]
    \o Concat([i \in DOMAIN gs.players |-> gs.players[i].tricksWon])

\* hands, trick and piles are pairwise disjoint and hold the 40 cards of the deck
CardsPartition ==
    gameState # Null =>
        /\ Len(CardsOfRound(gameState)) = 40
        /\ Range(CardsOfRound(gameState)) = Range(createDeck)

PlayAccepted == Handled("PLAY_CARD") /\ InRound /\ ~IsError /\ outbox' # <<>>

\* an accepted play takes one card from the hand of the seat that played to the
\* trick; the play that completes a trick which does not end the round puts
\* the trick's four cards on the pile of the trick's winner and nowhere else
C7_PlayStep ==
    PlayAccepted =>
        LET ci == gameState.currentPlayerIndex + 1
            card == CHOOSE c \in Range(gameState.players[ci].hand) : c.id = inbox'.cardId
            trick == Append(gameState.currentTrick,
                            [card |-> card, playerId |-> gameState.players[ci].id,
                             position |-> Len(gameState.currentTrick)])
            wi == GamePlayerIndex(gameState, BestPlay(trick, gameState.trumpSuit).playerId)
            roundGoesOn == gameState'.roundNumber = gameState.roundNumber
                           /\ gameState'.phase = "playing"
        IN  /\ Len(trick) < 4 =>
                /\ gameState'.currentTrick = trick
                /\ \A i \in DOMAIN gameState.players :
                      /\ gameState'.players[i].tricksWon = gameState.players[i].tricksWon
                      /\ Range(gameState'.players[i].hand) =
                            Range(gameState.players[i].hand) \ (IF i = ci THEN {card} ELSE {})
            /\ (Len(trick) = 4 /\ roundGoesOn) =>
                /\ gameState'.currentTrick = <<>>
                /\ \A i \in DOMAIN gameState.players :
                      /\ gameState'.players[i].tricksWon =
                            gameState.players[i].tricksWon
                            \o (IF i = wi THEN [k \in 1..4 |-> trick[k].card] ELSE <<>>)
                      /\ Range(gameState'.players[i].hand) =
                            Range(gameState.players[i].hand) \ (IF i = ci THEN {card} ELSE {})

\* C7: in every state of a round the cards in the four hands, in the trick and
\* in the won piles are pairwise disjoint and are together the 40 cards of the
\* deck; an accepted play moves one card from the playing seat's hand to the
\* trick, and the resolution of a trick moves its four cards to the winner's pile.
C7_CardConservation == []CardsPartition /\ [][C7_PlayStep]_vars

\* C7 happens: two tricks lie on one pile, two cards in the trick, the rest in hands
C7_Witness ==
    /\ gameState # Null /\ gameState.phase = "playing"
    /\ Len(gameState.currentTrick) = 2
    /\ \E i \in DOMAIN gameState.players : Len(gameState.players[i].tricksWon) >= 8
    /\ \E i \in DOMAIN gameState.players : Len(gameState.players[i].hand) < 10

(***************************************************************************)
(* C1: the projection boundary of the networked variants                   *)
(***************************************************************************)
\* the ids of the cards a ClientGameState shows
CardsShown(state) ==
    {state.myHand[i].id : i \in DOMAIN state.myHand}
    \cup {state.currentTrick[i].card.id : i \in DOMAIN state.currentTrick}
    \cup Range(state.validCards)
    \cup {state.trumpCard.id}

\* the ids of the cards a message of the mesh carries
MeshCardsCarried(message) ==
    IF message.type = "game_state"
    THEN {message.data.currentTrick[i].card.id : i \in DOMAIN message.data.currentTrick}
    ELSE IF message.type = "player_action"
    THEN {message.data.cards[i].id : i \in DOMAIN message.data.cards}
    ELSE {}

\* the ids of the cards a peer holds or is about to receive as its hand
MeshHeld(q) ==
    {peerHand[q][i].id : i \in DOMAIN peerHand[q]}
    \cup (IF q = Host THEN {}
          ELSE UNION {MeshCardsCarried(toPeer[q][i]) : i \in
                        {k \in DOMAIN toPeer[q] : toPeer[q][k].type = "player_action"}})

\* the GAME_STATE the relay server sent to a connection shows the hand of the
\* connection's seat in full
RelayOwnHandInFull(sent) ==
    /\ FindByConn(sent.to) # 0
    /\ sent.msg.state.myId = players[FindByConn(sent.to)].id
    /\ sent.msg.state.myHand
          = gameState.players[GamePlayerIndex(gameState, sent.msg.state.myId)].hand

\* and for every seat only the number of its cards
RelayCountsOnly(sent) ==
    \A k \in DOMAIN sent.msg.state.players :
        /\ DOMAIN sent.msg.state.players[k]
              = {"id", "position", "team", "cardCount", "connectionStatus", "isHost"}
        /\ \A j \in DOMAIN gameState.players :
              gameState.players[j].id = sent.msg.state.players[k].id
                 => sent.msg.state.players[k].cardCount = Len(gameState.players[j].hand)

\* and no card that is in the hand of another seat
RelayNoForeignCard(sent) ==
    \A j \in DOMAIN gameState.players :
        gameState.players[j].id # sent.msg.state.myId
           => \A i \in DOMAIN gameState.players[j].hand :
                 gameState.players[j].hand[i].id \notin CardsShown(sent.msg.state)

\* a message the host of the mesh sent to a peer: a hand travels only to the
\* peer it is addressed to, the broadcast state holds card counts only, and no
\* card of the message is held by another participant
MeshBoundary(p, message) ==
    /\ message.type = "player_action" => message.data.playerId = p
    /\ message.type = "game_state" =>
          \A k \in DOMAIN message.data.players :
              DOMAIN message.data.players[k] = {"id", "position", "team", "cardCount"}
    /\ \A q \in ({Host} \cup Peers) \ {p} : MeshCardsCarried(message) \cap MeshHeld(q) = {}

\* C1: no message delivered to a seat contains the contents of another
\* seat's hand.  Relay server: every GAME_STATE sent to a connection carries
\* the hand of the connection's seat in full, for every seat its card count
\* only, and no card that is in another seat's hand.  Peer mesh: every hand
\* is sent only over the connection of the seat it was dealt to, and the
\* broadcast game_state carries card counts only.
C1_ProjectionBoundary ==
    /\ variant = "relay" =>
          \A i \in DOMAIN outbox : outbox[i].msg.type = "GAME_STATE" =>
              /\ RelayOwnHandInFull(outbox[i])
              /\ RelayCountsOnly(outbox[i])
              /\ RelayNoForeignCard(outbox[i])
    /\ variant = "mesh" =>
          \A p \in Peers : \A i \in DOMAIN toPeer[p] : MeshBoundary(p, toPeer[p][i])

(***************************************************************************)
(* C6: the round points of the two teams at the end of a round             *)
(***************************************************************************)
\* the ROUND_END messages the relay server sent for a round that a PLAY_CARD
\* brought to empty hands and in which no tute was declared
RoundEndsSent ==
    {i \in DOMAIN outbox :
        /\ outbox[i].msg.type = "ROUND_END"
        /\ inbox.type = "PLAY_CARD"
        /\ \A t \in {1, 2} : \A k \in DOMAIN outbox[i].msg.scores[t].cantes :
              outbox[i].msg.scores[t].cantes[k].type # "tute"}

\* the local simulation resolved the last trick of a round
LocalRoundEnded == aiEvent # Null /\ aiEvent.type = "roundEnd"

\* C6: for every round played to empty hands without a tute, in the relay
\* server and in the local simulation, the round points of the two teams at
\* the end of the round add up to 130 plus the bonuses of the 20/40
\* declarations made in the round, so to exactly 130 when none was made.
C6_RoundPointsSum ==
    /\ variant = "relay" =>
          \A i \in RoundEndsSent :
              outbox[i].msg.scores[1].roundPoints + outbox[i].msg.scores[2].roundPoints
                 = 130 + CantePoints(outbox[i].msg.scores[1].cantes)
                       + CantePoints(outbox[i].msg.scores[2].cantes)
    /\ (variant = "local" /\ LocalRoundEnded) =>
          aiEvent.scores[1].points + aiEvent.scores[2].points
             = 130 + SeqSum([k \in DOMAIN aiEvent.canteHistory |->
                                aiEvent.canteHistory[k].points])

\* C6 happens: the relay server ended a round in which one 20 or 40 was
\* declared, and the round points add up to more than 130
C6_Witness ==
    /\ variant = "relay"
    /\ \E i \in RoundEndsSent :
          /\ Len(outbox[i].msg.scores[1].cantes \o outbox[i].msg.scores[2].cantes) = 1
          /\ outbox[i].msg.scores[1].roundPoints + outbox[i].msg.scores[2].roundPoints > 130

(***************************************************************************)
(* The deal, the deck and the declaration checks.                          *)
(***************************************************************************)
\* C11: dealCards on a 40-card deck with 4 seats returns 4 hands of exactly
\* 10 cards each that partition the deck (every card of the deck is in
\* exactly one hand), and the trump suit is the suit of the deck's 40th card,
\* which is the last card of the fourth hand.
C11_DealPartitionsDeck ==
    (variant = "cards" /\ rulesOut # Null /\ rulesOut.fn = "dealCards") =>
        LET deck == rulesIn.deck
            r == rulesOut.result
        IN  /\ Len(deck) = 40
            /\ Len(r.hands) = 4
            /\ \A i \in 1..4 : Len(r.hands[i]) = 10
            /\ \A n \in 1..40 :
                  Cardinality({<<i, k>> \in (1..4) \X (1..10) : r.hands[i][k] = deck[n]}) = 1
            /\ \A i \in 1..4 : \A k \in 1..10 : \E n \in 1..40 : deck[n] = r.hands[i][k]
            /\ r.trumpSuit = deck[40].suit
            /\ r.trumpCard = r.hands[4][10]
            /\ r.trumpCard = deck[40]

\* a deal of a deck whose 40th card is not of the suit of the last card of
\* any of the first three hands
C11_Witness ==
    /\ variant = "cards"
    /\ rulesOut # Null
    /\ rulesOut.fn = "dealCards"
    /\ \A i \in 1..3 : rulesOut.result.hands[i][10].suit # rulesOut.result.trumpSuit
    /\ rulesOut.result.hands[1][1].suit # rulesOut.result.trumpSuit

\* C12: createDeck returns exactly 40 cards with pairwise distinct (suit,
\* number), covering the 4 suits times the numbers 1 2 3 4 5 6 7 10 11 12,
\* and the point values of the deck sum to 120.
C12_DeckOfForty ==
    (variant = "cards" /\ rulesOut # Null /\ rulesOut.fn = "createDeck") =>
        LET deck == rulesOut.result
        IN  /\ Len(deck) = 40
            /\ \A i, j \in DOMAIN deck :
                  i # j => <<deck[i].suit, deck[i].number>> # <<deck[j].suit, deck[j].number>>
            /\ {<<deck[i].suit, deck[i].number>> : i \in DOMAIN deck}
                  = {"oros", "copas", "espadas", "bastos"} \X {1, 2, 3, 4, 5, 6, 7, 10, 11, 12}
            /\ \A i \in DOMAIN deck :
                  deck[i].value = (CASE deck[i].number = 1 -> 11
                                     [] deck[i].number = 3 -> 10
                                     [] deck[i].number = 12 -> 4
                                     [] deck[i].number = 11 -> 3
                                     [] deck[i].number = 10 -> 2
                                     [] OTHER -> 0)
            /\ SeqSum([i \in DOMAIN deck |-> deck[i].value]) = 120

C12_Witness ==
    /\ variant = "cards"
    /\ rulesOut # Null
    /\ rulesOut.fn = "createDeck"
    /\ rulesOut.result[1].number = 1
    /\ rulesOut.result[Len(rulesOut.result)].number = 12

\* the suits of which the hand holds both the king (12) and the knight (11)
PairSuits(hand) ==
    {s \in {"oros", "copas", "espadas", "bastos"} :
        /\ \E i \in DOMAIN hand : hand[i].suit = s /\ hand[i].number = 12
        /\ \E i \in DOMAIN hand : hand[i].suit = s /\ hand[i].number = 11}

\* C13: canDeclare20or40 reports canDeclare = TRUE exactly when the team won
\* the preceding trick, the team has not already declared this round and the
\* hand holds the king and the knight of at least one suit; the available
\* declarations are then exactly those suits, each once, tagged 40 for the
\* trump suit and 20 for any other.
C13_CanDeclare20or40 ==
    (variant = "cards" /\ rulesOut # Null /\ rulesOut.fn = "canDeclare20or40") =>
        LET r == rulesOut.result
            pairs == PairSuits(rulesIn.hand)
        IN  /\ r.canDeclare = (rulesIn.teamWon /\ ~rulesIn.teamDeclared /\ pairs # {})
            /\ r.canDeclare =>
                  /\ Range(r.availableCantes)
                        = {[type |-> IF s = rulesIn.trumpSuit THEN "40" ELSE "20", suit |-> s] :
                              s \in pairs}
                  /\ Len(r.availableCantes) = Cardinality(pairs)
            /\ ~r.canDeclare => r.availableCantes = <<>>

\* a hand with the pair of the trump suit and the pair of another suit
C13_Witness ==
    /\ variant = "cards"
    /\ rulesOut # Null
    /\ rulesOut.fn = "canDeclare20or40"
    /\ rulesOut.result.canDeclare
    /\ Len(rulesOut.result.availableCantes) = 2
    /\ \E i \in 1..2 : rulesOut.result.availableCantes[i].type = "40"
    /\ \E i \in 1..2 : rulesOut.result.availableCantes[i].type = "20"

(***************************************************************************)
(* The declarations offered after a trick (relay).                         *)
(***************************************************************************)
\* the handled PLAY_CARD completes a trick and cards are left to play
TrickWonStep ==
    /\ PlayAccepted
    /\ Len(gameState.currentTrick) = 3
    /\ gameState'.phase = "playing"
    /\ gameState'.roundNumber = gameState.roundNumber
    /\ gameState'.currentTrick = <<>>

\* the seat that won the trick completed by the handled PLAY_CARD, as it is
\* after the handler
TrickWinnerAfter ==
    LET ci == gameState.currentPlayerIndex + 1
        card == CHOOSE c \in Range(gameState.players[ci].hand) : c.id = inbox'.cardId
        trick == Append(gameState.currentTrick,
                        [card |-> card, playerId |-> gameState.players[ci].id,
                         position |-> Len(gameState.currentTrick)])
    IN  gameState'.players[GamePlayerIndex(gameState, BestPlay(trick, gameState.trumpSuit).playerId)]

HoldsAll(hand, number) ==
    Cardinality({hand[i].suit : i \in {k \in DOMAIN hand : hand[k].number = number}}) = 4

TeamDeclared20or40(gs, team) ==
    \E i \in DOMAIN gs.scores[team + 1].cantes : gs.scores[team + 1].cantes[i].type \in {"20", "40"}

\* the seat holds four kings or four knights, the trick it just won is the
\* first its team won in the round, and its team has declared no 20 or 40
TuteDue(gs, seat) ==
    /\ HoldsAll(seat.hand, 12) \/ HoldsAll(seat.hand, 11)
    /\ Len(FlatTricks(gs.players, seat.team)) = 4
    /\ ~TeamDeclared20or40(gs, seat.team)

\* the seat holds king and knight of a suit and its team has declared no 20
\* or 40 in the round
PairDue(gs, seat) ==
    /\ PairSuits(seat.hand) # {}
    /\ ~TeamDeclared20or40(gs, seat.team)

\* C14: when a seat wins a trick, a tute declaration is offered (canDeclare
\* is set, on account of canDeclareTute) exactly when the seat holds four
\* kings or four knights, the trick just won is the first its team won in
\* the round and its team has declared no 20 or 40: the flag is set when a
\* tute is due, and it is set only when a tute or a 20/40 is due.
C14_TuteStep ==
    TrickWonStep =>
        /\ TuteDue(gameState', TrickWinnerAfter) => gameState'.canDeclare
        /\ gameState'.canDeclare =>
              TuteDue(gameState', TrickWinnerAfter) \/ PairDue(gameState', TrickWinnerAfter)

C14_TuteOfferedOnFirstTrick == [][C14_TuteStep]_vars

(***************************************************************************)
(* The winner of a round (relay and local simulation).                     *)
(***************************************************************************)
\* the relay server handled a PLAY_CARD that ended a round without a tute:
\* the position in the outbox of a ROUND_END it sent
RelayRoundEnds ==
    {i \in DOMAIN outbox' :
        /\ variant = "relay"
        /\ Handled("PLAY_CARD")
        /\ outbox'[i].msg.type = "ROUND_END"
        /\ \A t \in {1, 2} : \A k \in DOMAIN outbox'[i].msg.scores[t].cantes :
              outbox'[i].msg.scores[t].cantes[k].type # "tute"}

\* the team of the seat named by the TRICK_WON of the handled PLAY_CARD
RelayLastTrickTeam ==
    LET k == CHOOSE j \in DOMAIN outbox' : outbox'[j].msg.type = "TRICK_WON"
    IN  gameState.players[GamePlayerIndex(gameState, outbox'[k].msg.winnerId)].team

\* the tally of team t goes up by one, the other tally stays
OnlyTallyUp(before, after, t) ==
    /\ after[t] = before[t] + 1
    /\ after[3 - t] = before[3 - t]

\* the step resolves the last trick of a round of the local simulation
LocalRoundEnds ==
    /\ variant = "local"
    /\ aiGame # Null
    /\ aiGame' # Null
    /\ aiGame' # aiGame
    /\ Len(aiGame.currentTrick) = 4
    /\ aiGame'.currentTrick = <<>>
    /\ \A i \in DOMAIN aiGame.players : Len(aiGame.players[i].hand) = 0

LocalLastTrickTeam ==
    aiGame.players[FindIndex(aiGame.players,
                             LAMBDA p : p.position = aiGame'.lastTrickWinner)].team

\* the relay server alone: the winner of a round ended by a PLAY_CARD
C15_RelayRoundStep ==
    \A i \in RelayRoundEnds :
          LET sc == outbox'[i].msg.scores
              winner == IF sc[1].roundPoints > sc[2].roundPoints THEN 0
                        ELSE IF sc[2].roundPoints > sc[1].roundPoints THEN 1
                        ELSE RelayLastTrickTeam
          IN  OnlyTallyUp([t \in {1, 2} |-> gameState.scores[t].roundsWon],
                          [t \in {1, 2} |-> gameState'.scores[t].roundsWon], winner + 1)

C15_RelayOneRoundWinner == [][C15_RelayRoundStep]_vars

\* C15: every round that ends without a tute records exactly one round winner,
\* in the relay server and in the local simulation: the team with the
\* strictly higher round total, and on a tie the team that won the last trick;
\* the tally of that team goes up by one and the other tally stays.
C15_RoundStep ==
    /\ C15_RelayRoundStep
    /\ LocalRoundEnds =>
          LET sc == aiEvent'.scores
              winner == IF sc[1].points > sc[2].points THEN 1
                        ELSE IF sc[2].points > sc[1].points THEN 2
                        ELSE LocalLastTrickTeam
          IN  /\ aiEvent'.type = "roundEnd"
              /\ OnlyTallyUp([t \in {1, 2} |-> aiGame.scores[t].games],
                             [t \in {1, 2} |-> aiGame'.scores[t].games], winner)

C15_OneRoundWinner == [][C15_RoundStep]_vars

(***************************************************************************)
(* The order of play (relay).                                              *)
(***************************************************************************)
\* the trick as the handled PLAY_CARD leaves it before any resolution
TrickPlayed ==
    LET ci == gameState.currentPlayerIndex + 1
        card == CHOOSE c \in Range(gameState.players[ci].hand) : c.id = inbox'.cardId
    IN  Append(gameState.currentTrick,
               [card |-> card, playerId |-> gameState.players[ci].id,
                position |-> Len(gameState.currentTrick)])

\* C16: after an accepted PLAY_CARD by the seat at position p that leaves the
\* trick with fewer than 4 cards, the seat on turn is the one at position
\* (p + 3) mod 4; when the play completes the trick and the round goes on, the
\* seat that played the winning card is on turn and leads the next trick.
C16_TurnStep ==
    (variant = "relay" /\ PlayAccepted) =>
        LET p == SeatOnTurn.position
            winnerId == BestPlay(TrickPlayed, gameState.trumpSuit).playerId
        IN  /\ Len(TrickPlayed) < 4 =>
                /\ gameState'.players[gameState'.currentPlayerIndex + 1].position = (p + 3) % 4
                /\ gameState'.currentTrick = TrickPlayed
            /\ (Len(TrickPlayed) = 4 /\ gameState'.roundNumber = gameState.roundNumber
                    /\ gameState'.phase = "playing") =>
                /\ gameState'.players[gameState'.currentPlayerIndex + 1].id = winnerId
                /\ gameState'.leadPlayerIndex = gameState'.currentPlayerIndex
                /\ gameState'.currentTrick = <<>>

C16_TurnOrder == [][C16_TurnStep]_vars

\* a trick led by the seat at position 3, the winner of the trick before, to
\* which the seat at position 2 has played: the seat at position 1 is on turn
C16_Witness ==
    /\ variant = "relay"
    /\ gameState # Null
    /\ gameState.phase = "playing"
    /\ inbox # Null /\ inbox.type = "PLAY_CARD"
    /\ \E i \in DOMAIN outbox : outbox[i].msg.type = "CARD_PLAYED"
    /\ Len(gameState.currentTrick) = 2
    /\ gameState.lastTrickWinner = gameState.currentTrick[1].playerId
    /\ gameState.players[GamePlayerIndex(gameState, gameState.currentTrick[1].playerId)].position = 3
    /\ gameState.players[GamePlayerIndex(gameState, gameState.currentTrick[2].playerId)].position = 2
    /\ SeatOnTurn.position = 1

(***************************************************************************)
(* The order of play (mesh host and local simulation).                     *)
(***************************************************************************)
\* the mesh host took a play that leaves the trick with fewer than 4 cards
MeshHostPlayed ==
    /\ variant = "mesh"
    /\ peerGame[Host] # Null /\ peerGame'[Host] # Null
    /\ peerGame[Host].phase = "playing" /\ peerGame'[Host].phase = "playing"
    /\ Len(peerGame'[Host].currentTrick) = Len(peerGame[Host].currentTrick) + 1
    /\ Len(peerGame'[Host].currentTrick) < 4

\* the local simulation took a play that leaves the trick with fewer than 4
\* cards
LocalPlayed ==
    /\ variant = "local"
    /\ aiGame # Null /\ aiGame' # Null
    /\ aiGame'.roundNumber = aiGame.roundNumber
    /\ Len(aiGame'.currentTrick) = Len(aiGame.currentTrick) + 1
    /\ Len(aiGame'.currentTrick) < 4

\* C17: the mesh host and the local simulation pass the turn in the order of
\* the relay server: after a play by the seat at position p that does not
\* complete the trick, the seat on turn is the one at position (p + 3) mod 4.
C17_TurnStep ==
    /\ MeshHostPlayed =>
          peerGame'[Host].players[peerGame'[Host].currentPlayerIndex + 1].position
             = getNextPlayerIndex(
                  peerGame[Host].players[peerGame[Host].currentPlayerIndex + 1].position)
    /\ LocalPlayed =>
          aiGame'.currentPlayerPosition = getNextPlayerIndex(aiGame.currentPlayerPosition)

C17_SameTurnOrder == [][C17_TurnStep]_vars

(***************************************************************************)
(* The resolution of a trick (mesh host).                                  *)
(***************************************************************************)
\* the host resolves the 4-card trick of its state
MeshTrickResolved ==
    /\ variant = "mesh"
    /\ peerGame[Host] # Null /\ peerGame'[Host] # Null
    /\ Len(peerGame[Host].currentTrick) = 4
    /\ peerGame'[Host].currentTrick = <<>>
    /\ peerGame'[Host].phase = "playing"

\* the roster index of the seat that played the winning card of the trick
MeshWinningSeat(gs) ==
    FindIndex(gs.players,
              LAMBDA pl : pl.id = BestPlay(gs.currentTrick, gs.trumpSuit).playerId)

\* C18: when the mesh host resolves a 4-card trick, the points of the trick
\* go to the team of the seat that played the winning card and to no other,
\* and that seat is on turn to lead the next trick, whichever seat led the
\* trick.
C18_ResolveStep ==
    MeshTrickResolved =>
        LET gs == peerGame[Host]
            wi == MeshWinningSeat(gs)
            points == SeqSum([i \in DOMAIN gs.currentTrick |-> gs.currentTrick[i].card.value])
        IN  /\ wi # 0
            /\ peerGame'[Host].currentPlayerIndex = wi - 1
            /\ \A i \in DOMAIN gs.scores :
                  peerGame'[Host].scores[i].roundPoints
                     = gs.scores[i].roundPoints
                         + (IF gs.scores[i].team = gs.players[wi].team THEN points ELSE 0)

C18_TrickGoesToWinner == [][C18_ResolveStep]_vars

(***************************************************************************)
(* The first leader of a round (relay).                                    *)
(***************************************************************************)
\* the relay server ends a round and deals the next one
RelayNewRound ==
    /\ variant = "relay"
    /\ gameState # Null /\ gameState' # Null
    /\ gameState.phase = "playing" /\ gameState'.phase = "playing"
    /\ gameState'.roundNumber = gameState.roundNumber + 1

\* no trick of the round has been resolved
NoTrickWon == \A i \in DOMAIN gameState.players : gameState.players[i].tricksWon = <<>>

\* the roster index of the seat that led the first trick of the round being
\* played, where the state tells: the seat that leads while no trick has
\* been resolved, and in round 1 the seat handleStartGame put on turn
FirstLeaderKnown == NoTrickWon \/ gameState.roundNumber = 1

FirstLeader == IF NoTrickWon THEN gameState.leadPlayerIndex ELSE 0

\* C19: when a round ends and a new one is dealt, the first leader of the new
\* round is the seat at position (p + 3) mod 4, p being the position of the
\* seat that led the first trick of the round just ended.
C19_NewRoundStep ==
    (RelayNewRound /\ FirstLeaderKnown) =>
        /\ gameState'.players[gameState'.currentPlayerIndex + 1].position
              = (gameState.players[FirstLeader + 1].position + 3) % 4
        /\ gameState'.leadPlayerIndex = gameState'.currentPlayerIndex

C19_LeaderRotates == [][C19_NewRoundStep]_vars

(***************************************************************************)
(* The end of a round: game end or a new round (relay and local).          *)
(***************************************************************************)
\* the relay server ended a round: it sent a ROUND_END
RelayRoundOver ==
    /\ variant = "relay"
    /\ gameState # Null /\ gameState' # Null
    /\ outbox' # outbox \/ inbox' # inbox \/ gameState' # gameState
    /\ \E i \in DOMAIN outbox' : outbox'[i].msg.type = "ROUND_END"

\* a team whose tally went up in the step has reached the target
WinnerReached(before, after, target) ==
    \E t \in {1, 2} : after[t] = before[t] + 1 /\ after[t] >= target

\* C20: at each round end, in the relay server and in the local simulation,
\* the phase becomes game-end exactly when the round winner's tally of rounds
\* won has reached the target of 3; otherwise a new round is dealt with 10
\* cards for every seat, an empty trick, the round points and the
\* declarations reset, and play goes on.
C20_RoundEndStep ==
    /\ RelayRoundOver =>
          LET ended == WinnerReached([t \in {1, 2} |-> gameState.scores[t].roundsWon],
                                     [t \in {1, 2} |-> gameState'.scores[t].roundsWon], 3)
          IN  /\ (gameState'.phase = "gameEnd") <=> ended
              /\ ~ended =>
                    /\ gameState'.phase = "playing"
                    /\ gameState'.roundNumber = gameState.roundNumber + 1
                    /\ \A i \in DOMAIN gameState'.players :
                          Len(gameState'.players[i].hand) = 10
                    /\ gameState'.currentTrick = <<>>
                    /\ \A t \in {1, 2} :
                          /\ gameState'.scores[t].roundPoints = 0
                          /\ gameState'.scores[t].cantes = <<>>
    /\ LocalRoundEnds =>
          LET ended == WinnerReached([t \in {1, 2} |-> aiGame.scores[t].games],
                                     [t \in {1, 2} |-> aiGame'.scores[t].games], 3)
          IN  /\ (aiGame'.phase = "finished") <=> ended
              /\ ~ended =>
                    /\ aiGame'.phase = "playing"
                    /\ aiGame'.roundNumber = aiGame.roundNumber + 1
                    /\ \A i \in DOMAIN aiGame'.players : Len(aiGame'.players[i].hand) = 10
                    /\ aiGame'.currentTrick = <<>>
                    /\ \A t \in {1, 2} : aiGame'.scores[t].points = 0
                    /\ aiGame'.canteHistory = <<>>
                    /\ aiGame'.cantedSuits = <<>>

C20_GameEndOrNewRound == [][C20_RoundEndStep]_vars

\* the local simulation has ended the game: the last trick of a round was
\* resolved and the winner of the round has won 3 rounds
C20_Witness ==
    /\ variant = "local"
    /\ aiGame # Null
    /\ aiGame.phase = "finished"
    /\ aiEvent # Null /\ aiEvent.type = "roundEnd"
    /\ \E t \in {1, 2} : aiGame.scores[t].games = 3 /\ aiEvent.scores[t].points > aiEvent.scores[3 - t].points

(***************************************************************************)
(* The roster of a room (relay and mesh host).                             *)
(***************************************************************************)
\* at most 4 seats, with pairwise distinct ids and pairwise distinct
\* positions in 0..3
RosterWellFormed(roster) ==
    /\ Len(roster) <= 4
    /\ \A i, j \in DOMAIN roster :
          i # j => roster[i].id # roster[j].id /\ roster[i].position # roster[j].position
    /\ \A i \in DOMAIN roster : roster[i].position \in 0..3

\* the rosters of the next state
RostersWellFormed ==
    /\ variant = "relay" => RosterWellFormed(players')
    /\ (variant = "mesh" /\ peerGame'[Host] # Null) => RosterWellFormed(peerGame'[Host].players)

\* a round has started in the relay room
RoundStarted == gameState # Null /\ gameState.phase # "waiting"

\* a JOIN_ROOM on a room of 4 seats fails with ROOM_FULL, and one on a room of
\* fewer seats in which a round has started fails with the given code
JoinRejections(startedCode) ==
    (variant = "relay" /\ Handled("JOIN_ROOM")) =>
        /\ Len(players) >= 4 => Rejected(inbox'.from, "ROOM_FULL")
        /\ (Len(players) < 4 /\ RoundStarted) => Rejected(inbox'.from, startedCode)
        /\ IsError => players' = players

\* the roster property with the code the relay server sends for a started
\* round
RosterAndJoinAsCoded ==
    [][RostersWellFormed /\ JoinRejections("GAME_ALREADY_STARTED")]_vars

\* C21: after any sequence of CREATE_ROOM, JOIN_ROOM and LEAVE_ROOM, in
\* whatever order the connections deliver them, the roster of a relay room
\* and of a mesh host holds at most 4 seats with pairwise distinct ids and
\* pairwise distinct positions in 0..3; in the relay server a JOIN_ROOM fails
\* with ROOM_FULL when 4 seats are filled and with GAME_IN_PROGRESS when a
\* round has started.
C21_RosterAndJoin ==
    [][RostersWellFormed /\ JoinRejections("GAME_IN_PROGRESS")]_vars

(***************************************************************************)
(* Rejected room and reconnection intents of the relay server.             *)
(***************************************************************************)
\* the step sent one message, an ERROR to the connection
ErrorOnlyTo(conn) ==
    Len(outbox') = 1 /\ outbox'[1].to = conn /\ outbox'[1].msg.type = "ERROR"

\* the handled message is a room or reconnection intent
RoomIntent ==
    inbox' # Null /\ inbox'.type \in {"CREATE_ROOM", "JOIN_ROOM", "START_GAME", "RECONNECT"}

\* the sender of the handled START_GAME holds the host's seat
FromHost == FindByConn(inbox'.from) # 0 /\ players[FindByConn(inbox'.from)].id = hostId

\* a seat of the roster has the id and the secret of the handled RECONNECT
CredentialsMatch ==
    \E i \in DOMAIN players :
        players[i].id = inbox'.playerId /\ players[i].secret = inbox'.playerSecret

C22_IntentStep ==
    variant = "relay" =>
        /\ (Handled("CREATE_ROOM") /\ Len(players) > 0) => ErrorOnlyTo(inbox'.from)
        /\ (Handled("JOIN_ROOM") /\ (Len(players) >= 4 \/ RoundStarted))
              => ErrorOnlyTo(inbox'.from)
        /\ (Handled("START_GAME") /\ ~FromHost) => Rejected(inbox'.from, "NOT_HOST")
        /\ (Handled("START_GAME") /\ FromHost /\ Len(players) # 4)
              => Rejected(inbox'.from, "NOT_ENOUGH_PLAYERS")
        /\ (Handled("RECONNECT") /\ ~CredentialsMatch)
              => Rejected(inbox'.from, "RECONNECT_FAILED")
        /\ (RoomIntent /\ IsError)
              => /\ ErrorOnlyTo(inbox'.from)
                 /\ players' = players
                 /\ hostId' = hostId
                 /\ gameState' = gameState

\* C22: in the relay server a rejected room or reconnection intent
\* (CREATE_ROOM on a room that has seats, JOIN_ROOM on a full or started room,
\* START_GAME from a connection that is not the host's with NOT_HOST or from
\* the host without exactly 4 seats with NOT_ENOUGH_PLAYERS, RECONNECT with an
\* id and a secret that match no seat) sends one ERROR to the requesting
\* connection and nothing to any other, and leaves the roster, the host and
\* the game state as they were.
C22_RejectedRoomIntent == [][C22_IntentStep]_vars

\* C22 happens: with a game dealt and another seat connected, a RECONNECT
\* with a wrong secret got RECONNECT_FAILED
C22_Witness ==
    /\ variant = "relay"
    /\ inbox # Null /\ inbox.type = "RECONNECT"
    /\ gameState # Null
    /\ \E i \in DOMAIN players : players[i].connectionId \notin {NoConn, inbox.from}
    /\ outbox = <<[to |-> inbox.from, msg |-> [type |-> "ERROR", code |-> "RECONNECT_FAILED"]]>>

(***************************************************************************)
(* Reconnection to the relay server.                                       *)
(***************************************************************************)
\* the seat of the roster with the id and the secret of the handled
\* RECONNECT, 0 if none
ClaimedSeat ==
    FindIndex(players, LAMBDA p : p.id = inbox'.playerId /\ p.secret = inbox'.playerSecret)

\* the last message of the step went to the requesting connection and is the
\* seat's view: its GAME_STATE with its own hand and the turn when a game
\* exists, the room with its id when none does
SeatViewReturned ==
    /\ outbox' # <<>>
    /\ LET last == outbox'[Len(outbox')]
       IN  /\ last.to = inbox'.from
           /\ IF gameState' # Null
              THEN /\ last.msg.type = "GAME_STATE"
                   /\ last.msg.state.myId = inbox'.playerId
                   /\ last.msg.state.myHand =
                         gameState'.players[GamePlayerIndex(gameState', inbox'.playerId)].hand
                   /\ last.msg.state.currentPlayerId = SeatOnTurn.id
                   /\ last.msg.state.currentTrick = gameState.currentTrick
              ELSE /\ last.msg.type = "ROOM_JOINED"
                   /\ last.msg.playerId = inbox'.playerId

\* the message handled before the step was a RECONNECT of the same connection
\* with the same credentials, and it found its seat
SecondInARow ==
    /\ inbox # Null /\ inbox.type = "RECONNECT"
    /\ inbox.from = inbox'.from
    /\ inbox.playerId = inbox'.playerId /\ inbox.playerSecret = inbox'.playerSecret
    /\ ~(\E i \in DOMAIN outbox : outbox[i].msg.type = "ERROR")

C23_ReconnectStep ==
    (variant = "relay" /\ Handled("RECONNECT")) =>
        /\ ClaimedSeat = 0 =>
              /\ Rejected(inbox'.from, "RECONNECT_FAILED")
              /\ players' = players /\ gameState' = gameState
        /\ ClaimedSeat # 0 =>
              /\ players' = [players EXCEPT ![ClaimedSeat].connectionId = inbox'.from]
              /\ hostId' = hostId
              /\ PlayState(gameState') = PlayState(gameState)
              /\ SeatViewReturned
        /\ (ClaimedSeat # 0 /\ SecondInARow) =>
              /\ players' = players
              /\ RosterWellFormed(players')
              /\ PlayState(gameState') = PlayState(gameState)

\* C23: in the relay server a RECONNECT whose id and secret match a seat
\* binds that seat to the requesting connection and returns the seat's
\* current view; a second one in a row leaves the same seat, the same roster
\* (size, no duplicate, positions), the same hands and the same seat on turn;
\* a RECONNECT whose id and secret match no seat fails with RECONNECT_FAILED.
C23_ReconnectRebinds == [][C23_ReconnectStep]_vars

\* C23 happens: during a round a seat that had lost its connection is bound
\* to the new connection that sent its credentials, and got its view
C23_Witness ==
    /\ variant = "relay"
    /\ inbox # Null /\ inbox.type = "RECONNECT"
    /\ gameState # Null /\ gameState.phase = "playing"
    /\ \E i \in DOMAIN players :
          /\ players[i].id = inbox.playerId
          /\ players[i].connectionId = inbox.from
          /\ inbox.from # players[i].id
    /\ outbox # <<>> /\ outbox[Len(outbox)].msg.type = "GAME_STATE"

(***************************************************************************)
(* A seat of the relay server loses its connection.                        *)
(***************************************************************************)
\* the seat on turn of the round being played is in the roster without a
\* connection
TurnSeatDisconnected ==
    /\ InRound
    /\ \E i \in DOMAIN players :
          players[i].id = SeatOnTurn.id /\ players[i].connectionId = NoConn

\* the hands, the trick and the seat on turn
TurnState(gs) ==
    IF gs = Null THEN <<>>
    ELSE <<[i \in DOMAIN gs.players |-> gs.players[i].hand], gs.currentTrick,
           gs.players[gs.currentPlayerIndex + 1].id>>

\* the step handled a tute declaration
TuteDeclared == Handled("DECLARE_CANTE") /\ inbox'.canteType = "tute"

\* a step of the relay server, leaving out the tute declarations or not
DisconnectStep(exceptTute) ==
    variant = "relay" =>
        /\ Handled("close") =>
              /\ gameState' = gameState
              /\ hostId' = hostId
              /\ Len(players') = Len(players)
              /\ \A i \in DOMAIN players :
                    /\ players'[i].id = players[i].id
                    /\ players'[i].secret = players[i].secret
                    /\ players'[i].position = players[i].position
                    /\ players'[i].connectionId =
                          IF i = FindByConn(inbox'.from) THEN NoConn ELSE players[i].connectionId
        /\ (TurnSeatDisconnected /\ ~(exceptTute /\ TuteDeclared)) =>
              TurnState(gameState') = TurnState(gameState)

\* the property of a disconnect when no tute is declared while the seat on
\* turn has no connection
DisconnectKeepsSeatUnlessTute == [][DisconnectStep(TRUE)]_vars

\* C24: in the relay server a disconnect only clears the connection of the
\* seat: the seat stays in the roster and the hands, the trick, the seat on
\* turn and the scores are unchanged; while the seat on turn has no
\* connection no card is played for it and the turn does not move, and after
\* its reconnection it is still on turn with the same hand.
C24_DisconnectKeepsSeat == [][DisconnectStep(FALSE)]_vars

(***************************************************************************)
(* The projections the relay server sends after a move.                    *)
(***************************************************************************)
\* the step applied a PLAY_CARD or a DECLARE_CANTE: no error, and the game
\* state changed
MoveApplied ==
    /\ Handled("PLAY_CARD") \/ Handled("DECLARE_CANTE")
    /\ ~IsError
    /\ gameState' # Null
    /\ gameState' # gameState

\* every seat of the roster with an open connection was sent the GAME_STATE
\* built for it from the state the step left
ProjectionSentToAll ==
    \A i \in DOMAIN players' :
        (players'[i].connectionId # NoConn /\ players'[i].connectionId \in connections') =>
            \E m \in DOMAIN outbox' :
                /\ outbox'[m].to = players'[i].connectionId
                /\ outbox'[m].msg =
                      [type |-> "GAME_STATE",
                       state |-> ClientState(players', gameState', players'[i].id)]

\* a step of the relay server, leaving out the moves that end the game or not
ProjectionStep(exceptGameEnd) ==
    (variant = "relay" /\ MoveApplied /\ ~(exceptGameEnd /\ gameState'.phase = "gameEnd"))
        => ProjectionSentToAll

\* the property for the moves that do not end the game
ProjectionSentUnlessGameEnd == [][ProjectionStep(TRUE)]_vars

\* C25: in the relay server, after every PLAY_CARD or DECLARE_CANTE that was
\* applied, including one that ends the round or the game, every connected
\* seat is sent a GAME_STATE projection of the resulting state.
C25_ProjectionAfterMove == [][ProjectionStep(FALSE)]_vars

(***************************************************************************)
(* The window between the fourth card of a trick and its resolution (mesh  *)
(* host and local simulation).                                             *)
(***************************************************************************)
\* the trick and the card counts of the host's state, and the hands
MeshCards == <<peerGame[Host].currentTrick,
               [i \in DOMAIN peerGame[Host].players |-> peerGame[Host].players[i].cardCount],
               peerHand>>

\* the trick and the hands of the local simulation
LocalCards == <<aiGame.currentTrick,
                [i \in DOMAIN aiGame.players |-> aiGame.players[i].hand]>>

\* the mesh host: the trick never holds more than 4 cards, and from the
\* fourth card on the only change of the cards is the resolution, which
\* clears a trick of 4 cards
MeshWindowStep ==
    (variant = "mesh" /\ peerGame[Host] # Null /\ peerGame'[Host] # Null) =>
        /\ Len(peerGame'[Host].currentTrick) <= 4
        /\ (Len(peerGame[Host].currentTrick) >= 4 /\ MeshCards' # MeshCards) =>
              /\ Len(peerGame[Host].currentTrick) = 4
              /\ peerGame'[Host].currentTrick = <<>>
              /\ peerHand' = peerHand
              /\ \A i \in DOMAIN peerGame[Host].players :
                    peerGame'[Host].players[i].cardCount = peerGame[Host].players[i].cardCount

\* the local simulation: the same
LocalWindowStep ==
    (variant = "local" /\ aiGame # Null /\ aiGame' # Null) =>
        /\ Len(aiGame'.currentTrick) <= 4
        /\ (Len(aiGame.currentTrick) >= 4 /\ LocalCards' # LocalCards) =>
              /\ Len(aiGame.currentTrick) = 4
              /\ aiGame'.currentTrick = <<>>

\* the property of the local simulation alone
LocalWindowClosed == [][LocalWindowStep]_vars

\* C26: in the mesh host and in the local simulation, from the moment the
\* fourth card of a trick lands until the deferred resolution runs, no card
\* play is accepted: the trick never holds more than 4 cards, no hand and no
\* card count changes in the window, and the resolution runs on exactly
\* those 4 cards.
C26_NoPlayBeforeResolution == [][MeshWindowStep /\ LocalWindowStep]_vars

(***************************************************************************)
(* The synchronisation of a peer that joins the mesh.                      *)
(***************************************************************************)
\* the messages of the types in the sequence
OfType(messages, type) == Filter(messages, LAMBDA m : m.type = type)

\* the step opened the connection of peer p to the host
MeshOpened(p) == peerLink[p] # "open" /\ peerLink'[p] = "open"

\* the step handled a sync_request of peer p in the host
SyncRequestHandled(p) ==
    /\ toHost[p] # <<>>
    /\ Head(toHost[p]).type = "sync_request"
    /\ toHost'[p] = Tail(toHost[p])

C27_SyncStep ==
    variant = "mesh" =>
        \A p \in Peers :
            /\ MeshOpened(p) =>
                  Len(OfType(toHost'[p], "sync_request"))
                     = Len(OfType(toHost[p], "sync_request")) + 1
            /\ (SyncRequestHandled(p) /\ peerGame[Host] # Null) =>
                  /\ toPeer'[p] # <<>>
                  /\ toPeer'[p][Len(toPeer'[p])] = meshGameStateMessage(peerGame[Host])

\* C27: in the mesh, when the connection of a peer that is not the host to
\* the host opens, the peer sends a sync_request, and the host answers every
\* sync_request with its current game state, sent to the peer that asked.
C27_SyncOnOpen == [][C27_SyncStep]_vars

(***************************************************************************)
(* The card an AI seat selects.                                            *)
(***************************************************************************)
\* C28: for every difficulty (easy, medium, hard, expert), every hand that
\* is not empty, every trick of 0 to 3 cards, every trump and every trick
\* history, aiSelectCard returns one of getValidCards(hand, trick, trump).
C28_SelectedCardIsValid ==
    (variant = "ai" /\ rulesOut # Null) =>
        rulesOut.result \in
            Range(aiGetValidCards(rulesIn.hand, rulesIn.currentTrick, rulesIn.trumpSuit))

\* C28 happens: the expert chose among several legal cards of a hand of which
\* not every card is legal, with a history and cards in the trick
C28_Witness ==
    /\ variant = "ai" /\ rulesOut # Null
    /\ rulesOut.difficulty = "expert"
    /\ Len(rulesIn.currentTrick) = 3
    /\ rulesIn.trickHistory # <<>>
    /\ Len(aiGetValidCards(rulesIn.hand, rulesIn.currentTrick, rulesIn.trumpSuit)) = 2
    /\ Len(rulesIn.hand) = 3

(***************************************************************************)
(* Leaving a simulated game and the callbacks still pending.               *)
(***************************************************************************)
\* the step runs the callback t, which was scheduled before the last exitGame
StaleCallback(t) ==
    /\ t.run < exits
    /\ \/ localProcessAITurn(t)
       \/ localAITimeout(t)
       \/ localAIPlayTimeout(t)
       \/ \E deck \in LocalDecks \cup {<<>>} : localTrickTimeout(t, deck)

\* a callback scheduled before the exit runs while no game is open, and the
\* state stays null
TornDownStays ==
    [][\A t \in aiTimers : (aiGame = Null /\ StaleCallback(t)) => aiGame' = Null]_vars

\* a callback scheduled before an exit is still pending after it
StaleCallbackPending == \E t \in aiTimers : t.run < exits

\* C29: after exitGame in the local simulation no callback of an AI turn or
\* of a trick resolution that was scheduled before the exit changes the game
\* state: null stays null, and a game started after the exit is not changed
\* by a callback of the game before it.
C29_NoStaleCallback ==
    [][\A t \in aiTimers : StaleCallback(t) => aiGame' = aiGame]_vars

(***************************************************************************)
(* The seats of the relay room while a game is played.                     *)
(***************************************************************************)
\* the roster has 4 seats, those that hold the hands of the game
SeatsOfGame(roster, gs) ==
    /\ Len(roster) = 4
    /\ {roster[i].id : i \in DOMAIN roster} = {gs.players[i].id : i \in DOMAIN gs.players}

\* every message but LEAVE_ROOM, and a disconnect, keep the seats of a game
\* that has started
SeatsKeptUnlessLeave ==
    [][(variant = "relay" /\ RoundStarted /\ SeatsOfGame(players, gameState)
            /\ gameState' # Null /\ ~Handled("LEAVE_ROOM"))
          => SeatsOfGame(players', gameState')]_vars

\* C30: in the relay server, once play has started the roster of the room
\* has exactly 4 seats, which are the seats that hold hands in the game, in
\* every reachable state, whatever JOIN_ROOM, LEAVE_ROOM, RECONNECT or
\* disconnect was handled.
C30_FourSeatsOncePlaying ==
    (variant = "relay" /\ RoundStarted) => SeatsOfGame(players, gameState)

(***************************************************************************)
(* One declaration per suit and round.                                     *)
(***************************************************************************)
\* no two entries of the sequence name the same suit
NoSuitTwice(declarations) ==
    \A i, j \in DOMAIN declarations : i # j => declarations[i].suit # declarations[j].suit

\* the declarations of 20 and 40 recorded for the round in the relay room
RelayDeclarations(gs) ==
    SelectSeq(gs.scores[1].cantes \o gs.scores[2].cantes, LAMBDA c : c.type # "tute")

\* the local simulation alone: no suit is recorded twice in a round
LocalSuitDeclaredOnce ==
    (variant = "local" /\ aiGame # Null) =>
        NoSuitTwice(aiGame.canteHistory) /\ NoSuitTwice([i \in DOMAIN aiGame.cantedSuits |->
                                                            [suit |-> aiGame.cantedSuits[i]]])

\* C31: within one round, in the relay server and in the local simulation,
\* the declarations of 20 and 40 recorded for the round name no suit twice,
\* so that no declaration's bonus is counted twice.
C31_SuitDeclaredOnce ==
    /\ (variant = "relay" /\ gameState # Null) => NoSuitTwice(RelayDeclarations(gameState))
    /\ LocalSuitDeclaredOnce

(***************************************************************************)
(* The two implementations of the legal cards.                             *)
(***************************************************************************)
\* one of the two functions was applied to a hand and a trick of 1 to 3 cards
ValidCardsCompared ==
    /\ variant = "rules"
    /\ rulesIn.kind = "play"
    /\ Len(rulesIn.trick) \in 1..3
    /\ rulesOut # Null
    /\ rulesOut.fn \in {"getValidCards", "aiGetValidCards"}

\* a card of the trump suit lies on a trick led in another suit
TrickIsTrumped(trick, trumpSuit) ==
    /\ trick[1].card.suit # trumpSuit
    /\ \E i \in DOMAIN trick : trick[i].card.suit = trumpSuit

\* the two functions agree on every trick that is not trumped, and on a
\* trumped trick for every hand without a card of the suit led
SameValidCardsUnlessTrumped ==
    (/\ ValidCardsCompared
     /\ \/ ~TrickIsTrumped(rulesIn.trick, rulesIn.trumpSuit)
        \/ \A i \in DOMAIN rulesIn.hand : rulesIn.hand[i].suit # rulesIn.trick[1].card.suit)
      => Range(getValidCards(rulesIn.hand, rulesIn.trick, rulesIn.trumpSuit))
           = Range(aiGetValidCards(rulesIn.hand, rulesIn.trick, rulesIn.trumpSuit))

\* C32: for every hand, every trick of 1 to 3 cards and every trump suit,
\* getValidCards of the rule engine (utils/rules) and getValidCards of the
\* local simulation return the same set of cards.
C32_SameValidCards ==
    ValidCardsCompared =>
        /\ Range(rulesOut.result) =
              Range(getValidCards(rulesIn.hand, rulesIn.trick, rulesIn.trumpSuit))
        /\ Range(rulesOut.result) =
              Range(aiGetValidCards(rulesIn.hand, rulesIn.trick, rulesIn.trumpSuit))

(***************************************************************************)
(* The end of a round in the mesh.                                         *)
(***************************************************************************)
\* the host's game is in phase playing, no card is left in any hand and the
\* last trick has been resolved
MeshRoundNotEnded(gs) ==
    /\ gs # Null
    /\ gs.phase = "playing"
    /\ gs.currentTrick = <<>>
    /\ \A i \in DOMAIN gs.players : gs.players[i].cardCount = 0

\* the resolution of a trick in the mesh changes neither the phase nor the
\* rounds won nor the number of the round
MeshResolveOnlyScores ==
    [][(variant = "mesh" /\ peerGame[Host] # Null /\ Len(peerGame[Host].currentTrick) >= 4
           /\ peerGame'[Host] # Null /\ peerGame'[Host].currentTrick = <<>>)
         => /\ peerGame'[Host].phase = peerGame[Host].phase
            /\ peerGame'[Host].roundNumber = peerGame[Host].roundNumber
            /\ \A i \in DOMAIN peerGame[Host].scores :
                  peerGame'[Host].scores[i].roundsWon = peerGame[Host].scores[i].roundsWon]_vars

\* C33: in the mesh, when the trick that empties the four hands is resolved
\* the round ends (scores with the last-trick bonus, a round winner, then a
\* new deal or the end of the game): the host is never in phase playing
\* with every card count at 0 and the trick resolved.
C33_MeshRoundEnds == ~(variant = "mesh" /\ MeshRoundNotEnded(peerGame[Host]))

(***************************************************************************)
(* The trump suit and the hands of a round of the relay room.              *)
(***************************************************************************)
\* the step is taken in a round of the relay room and does not end it
WithinRound ==
    /\ variant = "relay"
    /\ gameState # Null /\ gameState.phase = "playing"
    /\ gameState' # Null
    /\ ~RelayRoundOver

\* the trump suit stays and every seat holds cards it held before
DealKept ==
    /\ gameState'.trumpSuit = gameState.trumpSuit
    /\ gameState'.trumpCard = gameState.trumpCard
    /\ \A i \in DOMAIN gameState.players :
          Range(gameState'.players[i].hand) \subseteq Range(gameState.players[i].hand)

\* every message but START_GAME, and a disconnect, keep the deal of a round
DealKeptUnlessStart == [][(WithinRound /\ ~Handled("START_GAME")) => DealKept]_vars

\* C34: in the relay server the trump suit is fixed for the whole round: from
\* the deal until the round ends no message (PLAY_CARD, DECLARE_CANTE,
\* SKIP_CANTE, START_GAME, JOIN_ROOM, LEAVE_ROOM, RECONNECT) and no
\* disconnect changes the trump suit or replaces the dealt hands.
C34_TrumpFixedInRound == [][WithinRound => DealKept]_vars

(***************************************************************************)
(* The host of the relay room.                                             *)
(***************************************************************************)
\* hostId names a seat of the roster
HostSeated(roster, host) == \E i \in DOMAIN roster : roster[i].id = host

\* a roster with a host seat keeps one as long as it is not emptied
HostKeptWhileSeated ==
    [][(variant = "relay" /\ HostSeated(players, hostId) /\ players' # <<>>)
          => HostSeated(players', hostId')]_vars

\* C35: whenever the roster of a relay room is not empty its hostId names a
\* seat of the roster, also when the first seat arrived through JOIN_ROOM in
\* an absent or emptied room and after the host seat left.
C35_HostInRoster ==
    (variant = "relay" /\ players # <<>>) => HostSeated(players, hostId)

(***************************************************************************)
(* The hands of the mesh participants and the host's card counts.          *)
(***************************************************************************)
\* no message of the mesh is in flight
MeshDelivered == \A p \in Peers : toHost[p] = <<>> /\ toPeer[p] = <<>>

\* every participant that holds cards holds as many as the host counts for
\* its seat
HandsAsCounted(gs) ==
    \A i \in DOMAIN gs.players :
        peerHand[gs.players[i].id] # <<>> =>
            Len(peerHand[gs.players[i].id]) = gs.players[i].cardCount

\* C36: in the mesh a card leaves a participant's hand only when the host
\* adds it to the trick; a play the host drops or rejects leaves the hand
\* as it was, so once the messages in flight are delivered every hand has
\* the size the host counts for its seat.
C36_HandMatchesCount ==
    (variant = "mesh" /\ peerGame[Host] # Null /\ peerGame[Host].phase = "playing"
        /\ MeshDelivered) => HandsAsCounted(peerGame[Host])

(***************************************************************************)
(* The cards the AI seats play.                                            *)
(***************************************************************************)
\* the step is a callback of an AI turn that put a card on the trick
AIPlayed ==
    /\ variant = "local"
    /\ aiEvent' # Null
    /\ aiEvent'.type \in {"aiPlay", "aiPlayAfterCante"}
    /\ aiEvent'.played

\* the seat that played was on turn and the trick was open
PlayedOnTurn ==
    /\ Len(aiGame.currentTrick) < 4
    /\ \E i \in DOMAIN aiGame.players :
          /\ aiGame.players[i].id = aiEvent'.playerId
          /\ aiGame.players[i].position = aiGame.currentPlayerPosition

\* the cards of the trick come from seats that differ
OneCardPerSeat(trick) ==
    \A i, j \in DOMAIN trick : i # j => trick[i].position # trick[j].position

AIPlaysOnTurnStep ==
    /\ AIPlayed => PlayedOnTurn
    /\ (variant = "local" /\ aiGame' # Null) =>
          Len(aiGame'.currentTrick) <= 4 /\ OneCardPerSeat(aiGame'.currentTrick)

\* as long as the human has left no game, every card of an AI is played on
\* its turn
AIPlaysOnTurnBeforeExit == [][exits' = 0 => AIPlaysOnTurnStep]_vars

\* C37: in the local simulation every card an AI callback plays is played
\* by the AI seat on turn, also after a cante of that AI: no callback plays
\* for a seat that is not on turn, and every trick holds at most one card of
\* each of the four seats.
C37_AIPlaysOnTurn == [][AIPlaysOnTurnStep]_vars

(***************************************************************************)
(* The end of the game in the relay room.                                  *)
(***************************************************************************)
\* the phase, the rounds won, the hands and the trick
EndState(gs) ==
    <<gs.phase, [i \in DOMAIN gs.scores |-> gs.scores[i].roundsWon],
      [i \in DOMAIN gs.players |-> gs.players[i].hand], gs.currentTrick>>

\* the step handled a message of a client's play in a game that had ended
AfterGameEnd(types) ==
    /\ variant = "relay"
    /\ gameState # Null /\ gameState.phase = "gameEnd"
    /\ inbox' # Null /\ inbox'.type \in types
    /\ outbox' # outbox \/ inbox' # inbox \/ gameState' # gameState

\* neither team has won more rounds than the target
TallyWithinTarget(gs) ==
    gs # Null => \A i \in DOMAIN gs.scores : gs.scores[i].roundsWon <= gs.targetRounds

\* PLAY_CARD and SKIP_CANTE change nothing of a game that has ended
GameEndKeptByPlayAndSkip ==
    [][AfterGameEnd({"PLAY_CARD", "SKIP_CANTE"}) =>
          gameState' # Null /\ EndState(gameState') = EndState(gameState)]_vars

\* C38: in the relay server the end of the game is terminal: in phase
\* gameEnd no PLAY_CARD, DECLARE_CANTE or SKIP_CANTE changes the phase, the
\* rounds won, the hands or the trick, and in every reachable state no
\* team has won more rounds than targetRounds.
C38_GameEndTerminal ==
    [][/\ AfterGameEnd({"PLAY_CARD", "DECLARE_CANTE", "SKIP_CANTE"}) =>
             gameState' # Null /\ EndState(gameState') = EndState(gameState)
       /\ variant = "relay" => TallyWithinTarget(gameState')]_vars

(***************************************************************************)
(* The 40 plays of a round of the relay room.                              *)
(***************************************************************************)
\* the cards still held in the game
CardsInHands(gs) == SeqSum([i \in DOMAIN gs.players |-> Len(gs.players[i].hand)])

\* in phase playing the seat on turn holds a card and has a legal move
SeatOnTurnCanPlay ==
    (variant = "relay" /\ gameState # Null /\ gameState.phase = "playing") =>
        LET hand == gameState.players[gameState.currentPlayerIndex + 1].hand
        IN  /\ hand # <<>>
            /\ getValidCards(hand, gameState.currentTrick, gameState.trumpSuit) # <<>>

\* the step ends the round that was being played: the server sends ROUND_END
\* or deals again
RoundLeft ==
    /\ variant = "relay"
    /\ gameState # Null /\ gameState.phase = "playing"
    /\ gameState' # Null
    /\ RelayRoundOver \/ ~DealKept

\* the step is the 40th accepted play of the round
FortiethPlay ==
    /\ Handled("PLAY_CARD")
    /\ CardsInHands(gameState) = 1
    /\ Len(gameState.currentTrick) = 3

\* the play of the last card held ends the round
LastCardEndsRound ==
    [][(variant = "relay" /\ gameState # Null /\ gameState.phase = "playing"
          /\ FortiethPlay /\ gameState' # gameState) => RelayRoundOver]_vars

\* without a tute and without a START_GAME a round ends by its 40th play only
FortyPlaysUnlessTuteOrStart ==
    [][(RoundLeft /\ ~TuteDeclared /\ ~Handled("START_GAME")) => FortiethPlay]_vars

\* C39: in the relay server a round that was dealt ends after exactly 40
\* accepted plays, by the play of the last card and by nothing before it,
\* and in every state of phase playing the seat on turn holds a card and
\* has a legal move.
C39_RoundOfFortyPlays ==
    [][/\ RoundLeft => FortiethPlay
       /\ SeatOnTurnCanPlay']_vars

(***************************************************************************)
(* The connections of the seats of the relay room.                         *)
(***************************************************************************)
\* no two seats of the roster are bound to the same connection
OneSeatPerConnection(roster) ==
    \A i, j \in DOMAIN roster :
        (i # j /\ roster[i].connectionId # NoConn)
            => roster[i].connectionId # roster[j].connectionId

\* every message but JOIN_ROOM, and a disconnect, keep the seats on
\* connections that differ
OneSeatKeptUnlessJoin ==
    [][(variant = "relay" /\ OneSeatPerConnection(players) /\ ~Handled("JOIN_ROOM"))
          => OneSeatPerConnection(players')]_vars

\* C40: in the relay server no two seats of the roster share a connection
\* that is not null: a connection that holds a seat gets no second seat
\* through CREATE_ROOM, JOIN_ROOM or RECONNECT.
C40_OneSeatPerConnection == variant = "relay" => OneSeatPerConnection(players)
====
